---------------------------- MODULE Spec2Model ----------------------------
(***************************************************************************)
(* A model of the EMMAA query-result store and delta engine:               *)
(*   emmaa/db/manager.py      (EmmaaDatabaseManager, hashing, resolver)    *)
(*   emmaa/answer_queries.py  (QueryManager, delta engine, manager cache)  *)
(*                                                                         *)
(* Strings are sequences of byte codes, JSON values are tagged records,    *)
(* a 32-bit hash is the pair <<high 16 bits, low 16 bits>>.                *)
(***************************************************************************)
EXTENDS Integers, Sequences, FiniteSets, TLC

(***************************************************************************)
(* Bounds of the model.                                                    *)
(***************************************************************************)
\* the number of calls the callers make in all
MaxCalls == 2
\* the number of put_queries calls when only the registry is exercised
MaxRegCalls == 3
\* the number of load_model_manager_from_s3 calls when only the cache is
\* exercised
MaxLoads == 4
\* the number of rows the result table may hold
MaxResults == 3
\* the number of calls when only the sweep is exercised
MaxSweepCalls == 3
\* the number of answering calls when users read their registered results
MaxSubscriberCalls == 3
\* the largest latest_order a caller asks the resolver for
MaxOrder == 2

(***************************************************************************)
(* Byte strings.                                                           *)
(***************************************************************************)
RECURSIVE LexLess(_, _)
\* Python's str < str: lexicographic by code point, a proper prefix first.
LexLess(a, b) ==
    IF a = <<>> THEN b # <<>>
    ELSE IF b = <<>> THEN FALSE
    ELSE IF Head(a) # Head(b) THEN Head(a) < Head(b)
    ELSE LexLess(Tail(a), Tail(b))

RECURSIVE InsertSorted(_, _)
InsertSorted(x, s) ==
    IF s = <<>> THEN <<x>>
    ELSE IF LexLess(x, Head(s)) THEN <<x>> \o s
    ELSE <<Head(s)>> \o InsertSorted(x, Tail(s))

RECURSIVE SortStrings(_)
\* sorted(...) over a list of strings.
SortStrings(s) ==
    IF s = <<>> THEN <<>>
    ELSE InsertSorted(Head(s), SortStrings(Tail(s)))

RECURSIVE Join(_, _)
\* sep.join(strs)
Join(sep, strs) ==
    IF strs = <<>> THEN <<>>
    ELSE IF Len(strs) = 1 THEN Head(strs)
    ELSE Head(strs) \o sep \o Join(sep, Tail(strs))

RECURSIVE Digits(_)
\* the decimal digits of a natural number
Digits(n) ==
    IF n < 10 THEN <<48 + n>>
    ELSE Digits(n \div 10) \o <<48 + (n % 10)>>

\* str(float) for a float given in tenths: 15 is 1.5 and prints "1.5",
\* 10 is 1.0 and prints "1.0", -5 is -0.5 and prints "-0.5".
FloatStr(tenths) ==
    LET a == IF tenths < 0 THEN -tenths ELSE tenths
    IN  (IF tenths < 0 THEN <<45>> ELSE <<>>)
        \o Digits(a \div 10) \o <<46>> \o Digits(a % 10)

(***************************************************************************)
(* sorted_json_string (manager.py 364-377).  A JSON value is one of        *)
(*   [t |-> "str",   s |-> bytes]                                          *)
(*   [t |-> "list",  items |-> <<json, ...>>]                              *)
(*   [t |-> "dict",  items |-> << <<key bytes, json>>, ... >>]             *)
(*   [t |-> "float", tenths |-> Int]                                       *)
(*   [t |-> "int", ...], [t |-> "bool", ...], [t |-> "null"]               *)
(* The result is [err |-> BOOLEAN, s |-> bytes]; err stands for the        *)
(* TypeError of line 377.                                                  *)
(***************************************************************************)
TypeError == [err |-> TRUE, s |-> <<>>]

RECURSIVE sorted_json_string_Unsorted(_)
\* the parts are joined in the order they come in
sorted_json_string_Unsorted(json_thing) ==
    IF json_thing.t = "str" THEN [err |-> FALSE, s |-> json_thing.s]
    ELSE IF json_thing.t = "list" THEN
        LET parts == [i \in 1..Len(json_thing.items) |->
                         sorted_json_string_Unsorted(json_thing.items[i])]
        IN  IF \E i \in 1..Len(parts) : parts[i].err THEN TypeError
            ELSE [err |-> FALSE,
                  s |-> <<91>> \o Join(<<44>>,
                            [i \in 1..Len(parts) |-> parts[i].s])
                        \o <<93>>]
    ELSE IF json_thing.t = "dict" THEN
        LET parts == [i \in 1..Len(json_thing.items) |->
                         sorted_json_string_Unsorted(json_thing.items[i][2])]
        IN  IF \E i \in 1..Len(parts) : parts[i].err THEN TypeError
            ELSE [err |-> FALSE,
                  s |-> <<123>> \o Join(<<44>>,
                            [i \in 1..Len(parts) |->
                                json_thing.items[i][1] \o parts[i].s])
                        \o <<125>>]
    ELSE IF json_thing.t = "float" THEN
        [err |-> FALSE, s |-> FloatStr(json_thing.tenths)]
    ELSE TypeError

RECURSIVE sorted_json_string_Coerce(_)
\* a value of another type is turned into the string "?" instead of
\* raising
sorted_json_string_Coerce(json_thing) ==
    IF json_thing.t = "str" THEN [err |-> FALSE, s |-> json_thing.s]
    ELSE IF json_thing.t = "list" THEN
        LET parts == [i \in 1..Len(json_thing.items) |->
                         sorted_json_string_Coerce(json_thing.items[i])]
        IN  [err |-> FALSE,
             s |-> <<91>> \o Join(<<44>>,
                       SortStrings([i \in 1..Len(parts) |-> parts[i].s]))
                   \o <<93>>]
    ELSE IF json_thing.t = "dict" THEN
        LET parts == [i \in 1..Len(json_thing.items) |->
                         sorted_json_string_Coerce(json_thing.items[i][2])]
        IN  [err |-> FALSE,
             s |-> <<123>> \o Join(<<44>>,
                       SortStrings([i \in 1..Len(parts) |->
                           json_thing.items[i][1] \o parts[i].s]))
                   \o <<125>>]
    ELSE IF json_thing.t = "float" THEN
        [err |-> FALSE, s |-> FloatStr(json_thing.tenths)]
    ELSE [err |-> FALSE, s |-> <<63>>]

RECURSIVE sorted_json_string(_)
sorted_json_string(json_thing) ==
    IF json_thing.t = "str" THEN [err |-> FALSE, s |-> json_thing.s]
    ELSE IF json_thing.t = "list" THEN
        LET parts == [i \in 1..Len(json_thing.items) |->
                         sorted_json_string(json_thing.items[i])]
        IN  IF \E i \in 1..Len(parts) : parts[i].err THEN TypeError
            ELSE [err |-> FALSE,
                  s |-> <<91>> \o Join(<<44>>,
                            SortStrings([i \in 1..Len(parts) |-> parts[i].s]))
                        \o <<93>>]
    ELSE IF json_thing.t = "dict" THEN
        LET parts == [i \in 1..Len(json_thing.items) |->
                         sorted_json_string(json_thing.items[i][2])]
        IN  IF \E i \in 1..Len(parts) : parts[i].err THEN TypeError
            ELSE [err |-> FALSE,
                  s |-> <<123>> \o Join(<<44>>,
                            SortStrings([i \in 1..Len(parts) |->
                                json_thing.items[i][1] \o parts[i].s]))
                        \o <<125>>]
    ELSE IF json_thing.t = "float" THEN
        [err |-> FALSE, s |-> FloatStr(json_thing.tenths)]
    ELSE TypeError

(***************************************************************************)
(* fnv1a_32 (fnvhash, called at manager.py 383) on 16-bit halves.          *)
(***************************************************************************)
RECURSIVE Xor(_, _)
\* bitwise exclusive or of two naturals
Xor(a, b) ==
    IF a = 0 THEN b
    ELSE IF b = 0 THEN a
    ELSE ((a + b) % 2) + 2 * Xor(a \div 2, b \div 2)

\* one round: h = ((h xor byte) * 16777619) mod 2^32, 16777619 = 256*2^16 + 403
FnvRound(h, byte) ==
    LET lo == Xor(h[2], byte)
        hi == h[1]
    IN  << (hi * 403 + lo * 256 + ((lo * 403) \div 65536)) % 65536,
           (lo * 403) % 65536 >>

RECURSIVE FnvFold(_, _)
\* the rounds over the bytes, left to right; the test of h[1], a
\* natural number, has h computed at every round
FnvFold(h, bytes) ==
    IF bytes # <<>> /\ h[1] >= 0
    THEN FnvFold(FnvRound(h, Head(bytes)), Tail(bytes))
    ELSE h

\* offset basis 2166136261 = 33052 * 2^16 + 40389
fnv1a_32(bytes) == FnvFold(<<33052, 40389>>, bytes)

\* hash_query (manager.py 380-383); model_id is a byte string.
hash_query(query_json, model_id) ==
    LET c == sorted_json_string(query_json)
    IN  IF c.err THEN [err |-> TRUE, h |-> <<0, 0>>]
        ELSE [err |-> FALSE, h |-> fnv1a_32(model_id \o <<58>> \o c.s)]


(***************************************************************************)
(* The finite universe the operations draw their inputs from.              *)
(***************************************************************************)
\* the model ids, in the order a collection of them is iterated
ModelOrder == <<"m1", "m2">>

Models == {ModelOrder[i] : i \in 1..Len(ModelOrder)}

\* the bytes of a model id
ModelBytes(m) == IF m = "m1" THEN <<109, 49>> ELSE <<109, 50>>

Queries == {"q1", "q2"}

\* q3 is a query whose hash on model m2 is the hash of q1 on model m1
AllQueries == Queries \cup {"q3"}

Str(bytes) == [t |-> "str", s |-> bytes]
Float(tenths) == [t |-> "float", tenths |-> tenths]
List(items) == [t |-> "list", items |-> items]
Dict(items) == [t |-> "dict", items |-> items]

\* values of the types sorted_json_string has no branch for: an int, a
\* bool and None
Unsupported == {[t |-> "int", n |-> 1], [t |-> "bool", b |-> TRUE],
                [t |-> "null"]}

\* the strings "a", "bc", "c" and "1.5"
JsonStrings == {Str(<<97>>), Str(<<98, 99>>), Str(<<99>>),
                Str(<<49, 46, 53>>)}

\* the float 1.5 with the strings and the unsupported values
JsonAtoms == JsonStrings \cup {Float(15)} \cup Unsupported

\* the values put into lists and two-key dicts
JsonSmall == {Str(<<97>>), Str(<<98, 99>>), [t |-> "int", n |-> 1]}

\* the dict keys "a" and "ab"
JsonKeys == {<<97>>, <<97, 98>>}

\* lists and dicts of atoms
JsonFlat ==
    {List(<<x, y>>) : x, y \in JsonSmall}
    \cup {Dict(<< <<k, v>> >>) : k \in JsonKeys, v \in JsonAtoms}
    \cup {Dict(<< <<kv[1], kv[3]>>, <<kv[2], kv[4]>> >>) :
             kv \in {x \in JsonKeys \X JsonKeys \X JsonSmall \X JsonSmall :
                        x[1] # x[2]}}

\* what the nested serializations are made of
JsonParts ==
    {List(<<Str(<<97>>), Str(<<98, 99>>)>>),
     List(<<Str(<<98, 99>>), Str(<<97>>)>>),
     Dict(<< <<(<<97>>), Str(<<99>>)>>, <<(<<97, 98>>), Float(15)>> >>),
     Dict(<< <<(<<97, 98>>), Float(15)>>, <<(<<97>>), Str(<<99>>)>> >>),
     List(<<Str(<<97>>), [t |-> "null"]>>)}

\* lists and dicts of lists and dicts
JsonNested ==
    {List(<<x, y>>) : x, y \in JsonParts}
    \cup {Dict(<< <<(<<97>>), x>>, <<(<<97, 98>>), y>> >>) :
             x, y \in JsonParts}

\* the serializations handed to the hash
JsonInputs == JsonAtoms \cup JsonFlat \cup JsonNested

\* Query.to_json (emmaa.queries): q1 is {"type": "Act", "subj": "A",
\* "obj": "B"}, q2 is {"type": "Inh", "subj": "A", "obj": "B"}, q3 is
\* {"type": "Act", "subj": "GQDPQ9", "obj": "B"}.
to_json(q) ==
    [t |-> "dict",
     items |-> << << <<116, 121, 112, 101>>,
                     Str(IF q = "q2" THEN <<73, 110, 104>>
                                     ELSE <<65, 99, 116>>) >>,
                  << <<115, 117, 98, 106>>,
                     Str(IF q = "q3" THEN <<71, 81, 68, 80, 81, 57>>
                                     ELSE <<65>>) >>,
                  << <<111, 98, 106>>, Str(<<66>>) >> >>]

\* Query.get_hash_with_model (emmaa.queries): hash_query of the query's
\* json and the model id.
HashTable == [q \in AllQueries, m \in Models |->
                 hash_query(to_json(q), ModelBytes(m)).h]

get_hash_with_model(q, m) == HashTable[q, m]

\* user_id = None (NULL in the table); real user ids are positive
NoneId == 0

\* the identities the auth layer supplies: (email, id); ("", None) is
\* the anonymous caller
Callers == { [email |-> "", id |-> NoneId],
             [email |-> "a@x", id |-> 1] }

\* the callers of the runs in which users read their registered results:
\* a second identified user beside the first and the anonymous caller
Subscribers == Callers \cup { [email |-> "b@y", id |-> 2] }

\* the emails get_registered_queries is asked with
Emails == {"a@x", "b@y", "anonymous@emmaa.bio"}

UserIds == {c.id : c \in Subscribers}

Hashes == {HashTable[q, m] : q \in AllQueries, m \in Models}

McTypes == {"pysb", "pybel"}

\* result payloads: mappings from an answer key to its evidence
Payloads == { <<>>,
              [h1 |-> "e1"],
              [h1 |-> "e2"],
              [h1 |-> "e1", h2 |-> "e1"] }

\* what the evaluation engine may return for one query: a list of
\* (mc_type, response) pairs
ResponseLists ==
    { << <<"pysb", p>> >> : p \in Payloads }
    \cup { << <<"pysb", [h1 |-> "e1"]>>, <<"pybel", [h1 |-> "e1"]>> >> }

Threads == {"t1", "t2"}

(***************************************************************************)
(* State.                                                                  *)
(***************************************************************************)
VARIABLES
    users,                \* table user: rows [id, email]
    queries,              \* table query: rows [model_id, json, hash]
    user_queries,         \* table user_query: rows [user_id, query_hash,
                          \*                         subscription, count]
    results,              \* table result: rows [query_hash, mc_type,
                          \*                     result_json, date]
    now,                  \* the database clock
    model_manager_cache,  \* answer_queries.model_manager_cache
    fetches,              \* history: get_object calls made, per model
    th,                   \* per thread: the running call and its locals
    calls,                \* the number of calls started
    registered,           \* history: committed put_queries calls per
                          \*          (user id, query hash)
    committed,            \* history: the (query, model) pairs of the
                          \*          committed put_queries calls
    canon,                \* the two serializations handed to
                          \* hash_query, and what it returned for them
    appends               \* history: results handed to put_results per
                          \*          (query hash, mc_type)

vars == <<users, queries, user_queries, results, now, model_manager_cache,
          fetches, th, calls, registered, committed, canon, appends>>

dbvars == <<users, queries, user_queries, results, now>>
cachevars == <<model_manager_cache, fetches>>

\* model_manager_cache.get(name) of a missing key
NoHandle == [model |-> "none", inst |-> 0]

\* a thread that runs nothing
Idle ==
    [pc |-> "idle", op |-> "none",
     user_email |-> "", user_id |-> NoneId, query |-> "q1",
     model_ids |-> {}, subscribe |-> FALSE, new_date |-> 0,
     existing_hashes |-> {}, existing_uq |-> <<>>,
     saved |-> <<>>, todo |-> {}, cur |-> "none", mm |-> NoHandle,
     find_delta |-> FALSE, new_results |-> <<>>, reports |-> <<>>,
     got |-> <<>>, evals |-> <<>>,
     ret |-> [status |-> "none", op |-> "none"]]

\* two serializations whose hash was not yet asked for
Unhashed(a, b) ==
    [a |-> a, b |-> b, done |-> FALSE, m |-> "m1",
     sa |-> TypeError, sb |-> TypeError,
     ha |-> [err |-> TRUE, h |-> <<0, 0>>],
     hb |-> [err |-> TRUE, h |-> <<0, 0>>]]

\* the empty database, the empty cache and idle threads
InitProgram ==
    /\ users = <<>>
    /\ queries = <<>>
    /\ user_queries = <<>>
    /\ results = <<>>
    /\ now = 1
    /\ model_manager_cache = [m \in Models |-> NoHandle]
    /\ fetches = [m \in Models |-> 0]
    /\ th = [t \in Threads |-> Idle]
    /\ calls = 0
    /\ registered = [k \in UserIds \X Hashes |-> 0]
    /\ committed = {}
    /\ appends = [k \in Hashes \X McTypes |-> 0]

Init ==
    /\ InitProgram
    /\ canon = Unhashed(Str(<<>>), Str(<<>>))


(***************************************************************************)
(* Reading the tables.                                                     *)
(***************************************************************************)
\* for model_id in model_ids
SeqOfModels(S) == SelectSeq(ModelOrder, LAMBDA m : m \in S)

RECURSIVE JoinRows(_, _, _, _)
\* the rows of  query(Query.model_id, Query.json, Result.mc_type,
\* Result.result_json, Result.date).filter(Result.query_hash.in_(hashes),
\* Query.hash == Result.query_hash), from result row i on, in table order
JoinRows(qtbl, rtbl, hashes, i) ==
    IF i > Len(rtbl) THEN <<>>
    ELSE LET r == rtbl[i]
             qs == SelectSeq(qtbl, LAMBDA qr : qr.hash = r.query_hash)
             here == IF r.query_hash \in hashes
                     THEN [j \in 1..Len(qs) |->
                              [model_id |-> qs[j].model_id,
                               json |-> qs[j].json,
                               mc_type |-> r.mc_type,
                               result_json |-> r.result_json,
                               date |-> r.date]]
                     ELSE <<>>
         IN  here \o JoinRows(qtbl, rtbl, hashes, i + 1)

\* _make_queries_in_results (manager.py 354-361): the json of each row
\* becomes the Query object
_make_queries_in_results(result_iter) ==
    [i \in 1..Len(result_iter) |->
        [model_id |-> result_iter[i].model_id,
         query |-> result_iter[i].json,
         mc_type |-> result_iter[i].mc_type,
         result_json |-> result_iter[i].result_json,
         date |-> result_iter[i].date]]

\* the key _weed_results groups by
GroupKey(res) == <<get_hash_with_model(res.query, res.model_id), res.mc_type>>

RECURSIVE GroupKeys(_, _)
\* the keys of result_dict in insertion order
GroupKeys(result_iter, seen) ==
    IF result_iter = <<>> THEN <<>>
    ELSE LET k == GroupKey(Head(result_iter))
         IN  IF k \in seen THEN GroupKeys(Tail(result_iter), seen)
             ELSE <<k>> \o GroupKeys(Tail(result_iter), seen \cup {k})

RECURSIVE InsertByDate(_, _)
InsertByDate(x, s) ==
    IF s = <<>> THEN <<x>>
    ELSE IF x.date < Head(s).date THEN <<x>> \o s
    ELSE <<Head(s)>> \o InsertByDate(x, Tail(s))

RECURSIVE SortByDate(_)
\* sorted(res_list, key=lambda r: r[-1]): ascending and stable
SortByDate(s) ==
    IF s = <<>> THEN <<>>
    ELSE InsertByDate(s[Len(s)], SortByDate(SubSeq(s, 1, Len(s) - 1)))

\* result[-latest_order] of a list long enough
PickFromEnd(sorted, latest_order) == sorted[Len(sorted) - latest_order + 1]

\* _weed_results (manager.py 342-351).  result[-latest_order] raises
\* IndexError when a group is shorter than latest_order, and then the
\* list comprehension of line 350 yields nothing at all.
_weed_results(result_iter, latest_order) ==
    LET keys == GroupKeys(result_iter, {})
        sorted_results ==
            [i \in 1..Len(keys) |->
                SortByDate(SelectSeq(result_iter,
                                     LAMBDA r : GroupKey(r) = keys[i]))]
    IN  IF \E i \in 1..Len(keys) : Len(sorted_results[i]) < latest_order
        THEN [err |-> "IndexError", rows |-> <<>>]
        ELSE [err |-> "none",
              rows |-> [i \in 1..Len(keys) |->
                          PickFromEnd(sorted_results[i], latest_order)]]

\* get_results_from_query (manager.py 290-301) on the given tables
get_results_from_query(qtbl, rtbl, query, model_ids, latest_order) ==
    LET hashes == {get_hash_with_model(query, m) : m \in model_ids}
    IN  _weed_results(
            _make_queries_in_results(JoinRows(qtbl, rtbl, hashes, 1)),
            latest_order)

\* get_queries (manager.py 248-265)
get_queries(qtbl, model_id) ==
    LET rows == SelectSeq(qtbl, LAMBDA qr : qr.model_id = model_id)
    IN  [i \in 1..Len(rows) |-> rows[i].json]


\* the filter without UserQuery.subscription
SubscribedBy_AnyFlag(utbl, uq, user_email) ==
    /\ uq.user_id # NoneId
    /\ \E k \in 1..Len(utbl) :
          utbl[k].id = uq.user_id /\ utbl[k].email = user_email

\* the filter without User.email == user_email
SubscribedBy_AnyUser(utbl, uq, user_email) ==
    /\ uq.subscription
    /\ uq.user_id # NoneId
    /\ \E k \in 1..Len(utbl) : utbl[k].id = uq.user_id

\* the filter of get_results on one row of table user_query: the row is
\* subscribed and its user id is the id of a row of table user with the
\* given email (a NULL user id equals no id)
SubscribedBy(utbl, uq, user_email) ==
    /\ uq.subscription
    /\ uq.user_id # NoneId
    /\ \E k \in 1..Len(utbl) :
          utbl[k].id = uq.user_id /\ utbl[k].email = user_email

RECURSIVE UserJoinRows(_, _, _, _, _, _)
\* the rows of  query(Query.model_id, Query.json, Result.mc_type,
\* Result.result_json, Result.date).filter(Query.hash == Result.query_hash,
\* Query.hash == UserQuery.query_hash, UserQuery.user_id == User.id,
\* UserQuery.subscription, User.email == user_email), from result row i
\* on: one row per result row, query row and user_query row that fit
UserJoinRows(utbl, qtbl, uqtbl, rtbl, user_email, i) ==
    IF i > Len(rtbl) THEN <<>>
    ELSE LET r == rtbl[i]
             qs == SelectSeq(qtbl, LAMBDA qr : qr.hash = r.query_hash)
             uqs == SelectSeq(uqtbl, LAMBDA uq :
                        /\ uq.query_hash = r.query_hash
                        /\ SubscribedBy(utbl, uq, user_email))
             here == [k \in 1..(Len(qs) * Len(uqs)) |->
                         LET j == ((k - 1) \div Len(uqs)) + 1
                         IN  [model_id |-> qs[j].model_id,
                              json |-> qs[j].json,
                              mc_type |-> r.mc_type,
                              result_json |-> r.result_json,
                              date |-> r.date]]
         IN  here \o UserJoinRows(utbl, qtbl, uqtbl, rtbl, user_email, i + 1)

\* get_results (manager.py 303-330) on the given tables
get_results(utbl, qtbl, uqtbl, rtbl, user_email, latest_order) ==
    _weed_results(
        _make_queries_in_results(
            UserJoinRows(utbl, qtbl, uqtbl, rtbl, user_email, 1)),
        latest_order)


(***************************************************************************)
(* Calls.  A thread starts a call when it runs nothing; the call's steps   *)
(* interleave with the steps of the other threads.  A database session     *)
(* commits (or rolls back) in one step.                                    *)
(***************************************************************************)
CanStart(t) == th[t].pc = "idle"

Begin(t, locals) ==
    /\ th' = [th EXCEPT ![t] = locals]
    /\ calls' = calls + 1

\* the call of thread t returns (or raises): its locals are dropped
Finish(t, ret) == th' = [th EXCEPT ![t] = [Idle EXCEPT !.ret = ret]]

(***************************************************************************)
(* put_queries (manager.py 148-246).                                       *)
(***************************************************************************)
\* lines 179-185: the anonymous caller
IsAnonymous(user_email, user_id) == user_email = "" /\ user_id = NoneId

EffectiveEmail(user_email, user_id) ==
    IF IsAnonymous(user_email, user_id) THEN "anonymous@emmaa.bio"
    ELSE user_email

\* the row is not added
add_user_Skip(utbl, user_id, email) == utbl

\* add_user (manager.py 138-146): the session adds the row and commits;
\* the commit fails with an IntegrityError, which is caught and logged,
\* when the id or the email is taken
add_user(utbl, user_id, email) ==
    IF \E k \in 1..Len(utbl) :
           utbl[k].id = user_id \/ utbl[k].email = email
    THEN utbl
    ELSE Append(utbl, [id |-> user_id, email |-> email])

\* the index of the row .first() returns for (user_id, query_hash)
FirstUserQuery(uqtbl, user_id, qh) ==
    CHOOSE i \in 1..Len(uqtbl) :
        /\ uqtbl[i].user_id = user_id /\ uqtbl[i].query_hash = qh
        /\ \A j \in 1..(i - 1) :
              ~(uqtbl[j].user_id = user_id /\ uqtbl[j].query_hash = qh)

\* lines 195-198: the caller is identified and table user has no row
\* with its id
IsNewUser(utbl, user_email, user_id) ==
    /\ user_email # "" /\ user_id # NoneId
    /\ ~ \E k \in 1..Len(utbl) : utbl[k].id = user_id

\* lines 188-198 and the reads of the loop (229-232): what the session
\* sees of the tables
PQ_Read(t) ==
    /\ th[t].pc = "pq_read"
    /\ LET l == th[t]
           hs == {get_hash_with_model(l.query, m) : m \in l.model_ids}
           existing_hashes ==
               {queries[i].hash : i \in 1..Len(queries)} \cap hs
           existing_user_queries ==
               {user_queries[i].query_hash :
                   i \in {j \in 1..Len(user_queries) :
                             user_queries[j].user_id = l.user_id}} \cap hs
           rows == [h \in existing_user_queries |->
                      LET i == FirstUserQuery(user_queries, l.user_id, h)
                      IN  [idx |-> i,
                           count |-> user_queries[i].count,
                           subscription |-> user_queries[i].subscription]]
       IN  th' = [th EXCEPT
                    ![t].pc = IF IsNewUser(users, l.user_email, l.user_id)
                              THEN "pq_add_user" ELSE "pq_commit",
                    ![t].existing_hashes = existing_hashes,
                    ![t].existing_uq = rows]
    /\ UNCHANGED <<dbvars, cachevars, calls, registered, committed, canon,
                   appends>>

\* lines 201-203: add_user in a session of its own, committed before the
\* session of put_queries goes on
PQ_AddUser(t) ==
    /\ th[t].pc = "pq_add_user"
    /\ users' = add_user(users, th[t].user_id, th[t].user_email)
    /\ th' = [th EXCEPT ![t].pc = "pq_commit"]
    /\ UNCHANGED <<queries, user_queries, results, now, cachevars, calls,
                   registered, committed, canon, appends>>

\* lines 211-215: the Query rows to add
NewQueries(query, model_ids, existing_hashes) ==
    LET ms == SelectSeq(SeqOfModels(model_ids),
                  LAMBDA m : get_hash_with_model(query, m)
                                 \notin existing_hashes)
    IN  [i \in 1..Len(ms) |->
            [model_id |-> ms[i], json |-> query,
             hash |-> get_hash_with_model(query, ms[i])]]

\* lines 220-224: the UserQuery rows to add
NewUserQueries(user_id, query, model_ids, existing_user_queries, subscribe) ==
    LET ms == SelectSeq(SeqOfModels(model_ids),
                  LAMBDA m : get_hash_with_model(query, m)
                                 \notin existing_user_queries)
    IN  [i \in 1..Len(ms) |->
            [user_id |-> user_id,
             query_hash |-> get_hash_with_model(query, ms[i]),
             subscription |-> subscribe, count |-> 1]]

\* update_subscription (manager.py 386-403), called with subscribe = True
update_subscription(subscription, new_sub_status) ==
    IF new_sub_status # subscription THEN new_sub_status ELSE subscription

\* a resubmission that leaves the count as it was
UpdatedUserQuery_KeepCount(row, loaded_row, subscribe) ==
    [row EXCEPT
        !.subscription = IF subscribe THEN TRUE ELSE @]

\* a resubmission that writes its subscribe value, true or false
UpdatedUserQuery_SetFlag(row, loaded_row, subscribe) ==
    [row EXCEPT !.subscription = subscribe,
                !.count = loaded_row.count + 1]

\* lines 237-241 on a loaded row: the subscription and the count
UpdatedUserQuery(row, loaded_row, subscribe) ==
    [row EXCEPT
        !.subscription = IF subscribe
                         THEN update_subscription(loaded_row.subscription,
                                                  subscribe)
                         ELSE @,
        !.count = loaded_row.count + 1]

\* the unique constraint of QueryRecord: one row per (model_id, hash)
QueryUniqueOK(qtbl, new_rows) ==
    \A i \in 1..Len(new_rows) :
        /\ ~ \E j \in 1..Len(qtbl) :
               qtbl[j].model_id = new_rows[i].model_id
               /\ qtbl[j].hash = new_rows[i].hash
        /\ ~ \E j \in 1..Len(new_rows) :
               j # i /\ new_rows[j].model_id = new_rows[i].model_id
               /\ new_rows[j].hash = new_rows[i].hash

\* the unique constraint of Subscription: one row per (user_id, query_hash)
UserQueryUniqueOK(uqtbl, new_rows) ==
    \A i \in 1..Len(new_rows) :
        /\ ~ \E j \in 1..Len(uqtbl) :
               uqtbl[j].user_id = new_rows[i].user_id
               /\ uqtbl[j].query_hash = new_rows[i].query_hash
        /\ ~ \E j \in 1..Len(new_rows) :
               j # i /\ new_rows[j].user_id = new_rows[i].user_id
               /\ new_rows[j].query_hash = new_rows[i].query_hash

\* the rows flushed before the failure stay in the table
RolledBack_Flushed(tbl, pending) == tbl \o pending

\* __exit__ (manager.py 38-48) after an exception: the session is not
\* committed and none of its pending rows and updates reach the table
RolledBack(tbl, pending) == tbl

\* where a call goes on after its put_queries has committed
AfterPutQueries(l) ==
    IF l.op = "answer_immediate_query" THEN "aiq_resolve" ELSE "return"

\* lines 205-246: the session flushes its inserts and updates and commits,
\* or is rolled back on the IntegrityError of a broken constraint
PQ_Commit(t) ==
    /\ th[t].pc = "pq_commit"
    /\ LET l == th[t]
           hs == {get_hash_with_model(l.query, m) : m \in l.model_ids}
           new_queries == NewQueries(l.query, l.model_ids, l.existing_hashes)
           new_user_queries ==
               NewUserQueries(l.user_id, l.query, l.model_ids,
                              DOMAIN l.existing_uq, l.subscribe)
           updated ==
               [i \in 1..Len(user_queries) |->
                   IF \E h \in DOMAIN l.existing_uq : l.existing_uq[h].idx = i
                   THEN UpdatedUserQuery(
                            user_queries[i],
                            l.existing_uq[user_queries[i].query_hash],
                            l.subscribe)
                   ELSE user_queries[i]]
       IN  IF QueryUniqueOK(queries, new_queries)
              /\ UserQueryUniqueOK(user_queries, new_user_queries)
           THEN /\ queries' = queries \o new_queries
                /\ user_queries' = updated \o new_user_queries
                /\ registered' =
                       [k \in UserIds \X Hashes |->
                           IF k[1] = l.user_id /\ k[2] \in hs
                           THEN registered[k] + 1 ELSE registered[k]]
                /\ committed' =
                       committed \cup {<<l.query, m>> : m \in l.model_ids}
                /\ IF AfterPutQueries(l) = "return"
                   THEN Finish(t, [status |-> "ok", op |-> l.op,
                                   subscribe |-> l.subscribe])
                   ELSE th' = [th EXCEPT ![t].pc = AfterPutQueries(l)]
           ELSE /\ Finish(t, [status |-> "IntegrityError",
                              op |-> l.op, model_ids |-> l.model_ids])
                /\ queries' = RolledBack(queries, new_queries)
                /\ user_queries' =
                       RolledBack(user_queries, new_user_queries)
                /\ UNCHANGED <<registered, committed>>
    /\ UNCHANGED <<users, results, now, cachevars, calls, appends, canon>>

\* a caller registers a query: db.put_queries(user_email, user_id, query,
\* model_ids, subscribe)
StartPutQueries(t, c, q, ms, sub) ==
    /\ CanStart(t)
    /\ Begin(t, [Idle EXCEPT
                    !.pc = "pq_read", !.op = "put_queries",
                    !.user_email = EffectiveEmail(c.email, c.id),
                    !.user_id = c.id, !.query = q,
                    !.model_ids = ms, !.subscribe = sub])
    /\ UNCHANGED <<dbvars, cachevars, registered, committed, canon, appends>>

\* lines 170-173: model_ids is neither a list nor a set (a single model
\* id, say); TypeError is raised before anything is read or written
PutQueriesNotCollection(t, c, q, sub) ==
    /\ CanStart(t)
    /\ calls' = calls + 1
    /\ Finish(t, [status |-> "TypeError", op |-> "put_queries"])
    /\ UNCHANGED <<dbvars, cachevars, registered, committed, canon, appends>>

(***************************************************************************)
(* put_results (manager.py 267-288).                                       *)
(***************************************************************************)
\* the hash of each row is taken with another model id than the one the
\* results are for
ResultRows_OtherModel(model_id, query_results, date) ==
    [i \in 1..Len(query_results) |->
        [query_hash |->
             get_hash_with_model(query_results[i][1],
                 CHOOSE m \in Models : m # model_id),
         mc_type |-> query_results[i][2],
         result_json |-> query_results[i][3],
         date |-> date]]

\* lines 279-284: the Result rows of a list of (query, mc_type,
\* result_json); the date column is filled with the current time
ResultRows(model_id, query_results, date) ==
    [i \in 1..Len(query_results) |->
        [query_hash |-> get_hash_with_model(query_results[i][1], model_id),
         mc_type |-> query_results[i][2],
         result_json |-> query_results[i][3],
         date |-> date]]

\* an update in place of an insert: the rows of the same (hash, mc_type)
\* are replaced
put_results_Replace(rtbl, model_id, query_results, date) ==
    LET rows == ResultRows(model_id, query_results, date)
    IN  SelectSeq(rtbl, LAMBDA r :
            ~ \E i \in 1..Len(rows) :
                  /\ rows[i].query_hash = r.query_hash
                  /\ rows[i].mc_type = r.mc_type)
        \o rows

\* the rows are added twice
put_results_Twice(rtbl, model_id, query_results, date) ==
    rtbl \o ResultRows(model_id, query_results, date)
         \o ResultRows(model_id, query_results, date)

\* the rows already in the table get the date of the new ones
put_results_Restamp(rtbl, model_id, query_results, date) ==
    [i \in 1..Len(rtbl) |-> [rtbl[i] EXCEPT !.date = date]]
        \o ResultRows(model_id, query_results, date)

\* lines 286-287: the rows are added in one session
put_results(rtbl, model_id, query_results, date) ==
    rtbl \o ResultRows(model_id, query_results, date)

\* a Result row refers to a Query row by its hash
ResultReferenceOK(qtbl, query, model_id) ==
    \E i \in 1..Len(qtbl) : qtbl[i].hash = get_hash_with_model(query, model_id)

\* (query, mc_type, response) for mc_type, response in response_list
WithQuery(query, response_list) ==
    [i \in 1..Len(response_list) |->
        <<query, response_list[i][1], response_list[i][2]>>]

\* the history of what was handed to put_results
Handed(counts, model_id, query_results) ==
    [k \in Hashes \X McTypes |->
        counts[k] + Cardinality({i \in 1..Len(query_results) :
            /\ get_hash_with_model(query_results[i][1], model_id) = k[1]
            /\ query_results[i][2] = k[2]})]

\* a caller appends results: db.put_results(model_id, query_results)
PutResults(t, m, q, rl) ==
    /\ CanStart(t)
    /\ ResultReferenceOK(queries, q, m)
    /\ Len(results) + Len(rl) <= MaxResults
    /\ results' = put_results(results, m, WithQuery(q, rl), now)
    /\ appends' = Handed(appends, m, WithQuery(q, rl))
    /\ Finish(t, [status |-> "ok", op |-> "put_results"])
    /\ UNCHANGED <<users, queries, user_queries, now, cachevars, calls,
                   registered, committed, canon>>

\* time passes between two sessions
Tick ==
    /\ \E i \in 1..Len(results) : results[i].date = now
    /\ now' = now + 1
    /\ UNCHANGED <<users, queries, user_queries, results, cachevars, th,
                   calls, registered, committed, canon, appends>>

(***************************************************************************)
(* Rendering (answer_queries.py 292-348).                                  *)
(***************************************************************************)
\* the keys of a payload in the order of the mapping
KeyOrder == <<"h1", "h2">>

\* result_json.values()
Values(result_json) ==
    LET ks == SelectSeq(KeyOrder, LAMBDA k : k \in DOMAIN result_json)
    IN  [i \in 1..Len(ks) |-> result_json[ks[i]]]

\* _process_result_to_str (lines 325-331): the sentences of all values
_process_result_to_str(result_json) == Values(result_json)

\* _process_result_to_html (lines 334-348): response is assigned inside
\* the loop over the values, so a payload without values raises
\* UnboundLocalError at the return
_process_result_to_html(result_json) ==
    IF DOMAIN result_json = {}
    THEN [err |-> "UnboundLocalError", html |-> <<>>]
    ELSE [err |-> "none", html |-> Values(result_json)]

\* format_results (lines 292-306)
format_results(rows) ==
    IF \E i \in 1..Len(rows) :
           _process_result_to_html(rows[i].result_json).err # "none"
    THEN [status |-> "UnboundLocalError", results |-> <<>>]
    ELSE [status |-> "ok",
          results |-> [i \in 1..Len(rows) |->
                         [model |-> rows[i].model_id,
                          query |-> rows[i].query,
                          mc_type |-> rows[i].mc_type,
                          response |->
                              _process_result_to_html(rows[i].result_json).html,
                          date |-> rows[i].date]]]

(***************************************************************************)
(* The delta engine (answer_queries.py 91-155, 194-216, 278-289).          *)
(***************************************************************************)
\* an old result that is None
None == [some |-> FALSE, v |-> <<>>]
Some(result_json) == [some |-> TRUE, v |-> result_json]

\* not old_result_json: None and the empty mapping are both falsy
Falsy(old) == ~old.some \/ DOMAIN old.v = {}

\* is_query_result_diff (lines 278-289)
is_query_result_diff(new_result_json, old) ==
    IF Falsy(old) THEN TRUE
    ELSE DOMAIN new_result_json # DOMAIN old.v

\* make_str_report_one_query (lines 194-216): which of the three
\* messages, and the payloads it carries
make_str_report_one_query(model_name, query, mc_type, new_result_json, old) ==
    LET kind == IF is_query_result_diff(new_result_json, old)
                THEN IF Falsy(old) THEN "first" ELSE "changed"
                ELSE "unchanged"
    IN  [model_name |-> model_name, query |-> query, mc_type |-> mc_type,
         kind |-> kind,
         new_text |-> _process_result_to_str(new_result_json),
         old_text |-> IF kind = "changed"
                      THEN _process_result_to_str(old.v) ELSE <<>>,
         new_result_json |-> new_result_json,
         old_result_json |-> old]

\* the reports of one row of new_results (lines 120-153)
ReportsOfRow(qtbl, rtbl, row, order) ==
    LET old_results ==
            get_results_from_query(qtbl, rtbl, row.query, {row.model_id},
                                   order)
        same == SelectSeq(old_results.rows,
                          LAMBDA o : o.mc_type = row.mc_type)
    IN  IF old_results.err = "IndexError" \/ old_results.rows = <<>>
        THEN << make_str_report_one_query(row.model_id, row.query,
                    row.mc_type, row.result_json, None) >>
        ELSE [i \in 1..Len(same) |->
                 make_str_report_one_query(row.model_id, row.query,
                     row.mc_type, row.result_json,
                     Some(same[i].result_json))]

RECURSIVE ReportsFrom(_, _, _, _, _)
\* the loop of lines 117-154 with processed_query_mc
ReportsFrom(qtbl, rtbl, new_results, order, processed) ==
    IF new_results = <<>> THEN <<>>
    ELSE LET row == Head(new_results)
             key == <<row.model_id, row.query, row.mc_type>>
         IN  IF key \in processed
             THEN ReportsFrom(qtbl, rtbl, Tail(new_results), order, processed)
             ELSE ReportsOfRow(qtbl, rtbl, row, order)
                  \o ReportsFrom(qtbl, rtbl, Tail(new_results), order,
                                 processed \cup {key})

\* the second latest is asked for whether the results are stored or not
make_reports_from_results_Order2(qtbl, rtbl, new_results, stored) ==
    ReportsFrom(qtbl, rtbl, new_results, 2, {})

\* make_reports_from_results (lines 91-155), report_format 'str'
make_reports_from_results(qtbl, rtbl, new_results, stored) ==
    ReportsFrom(qtbl, rtbl, new_results, IF stored THEN 2 ELSE 1, {})


(***************************************************************************)
(* The model manager cache (answer_queries.py 11, 266-271, 309-322).       *)
(* QueryManager is built without model_managers (api.py 39), so            *)
(* get_model_manager always goes to load_model_manager_from_s3.            *)
(***************************************************************************)
\* if model_manager: a cached manager is truthy, None is not
Truthy(mm) == mm # NoHandle

\* where a call goes on with the manager it asked for
AfterLoad(l) ==
    IF l.op = "answer_immediate_query" THEN "aiq_eval"
    ELSE IF l.op = "answer_registered_queries" THEN "arq_answer"
    ELSE "return"

\* lines 310-313: the lookup; a hit returns the cached manager
LM_Check(t) ==
    /\ th[t].pc = "lm_check"
    /\ LET l == th[t]
           model_manager == model_manager_cache[l.cur]
       IN  IF Truthy(model_manager)
           THEN IF AfterLoad(l) = "return"
                THEN Finish(t, [status |-> "ok", op |-> l.op,
                                model |-> l.cur,
                                mm |-> model_manager, fetched |-> FALSE])
                ELSE th' = [th EXCEPT ![t].pc = AfterLoad(l),
                                      ![t].mm = model_manager]
           ELSE th' = [th EXCEPT ![t].pc = "lm_fetch"]
    /\ UNCHANGED <<dbvars, cachevars, calls, registered, committed, canon,
                   appends>>

\* the cache after line 321
StoreManager(cache, model_name, model_manager) ==
    [cache EXCEPT ![model_name] = model_manager]

\* lines 314-322: get_object and pickle.loads succeed; the manager, a new
\* object, is stored and returned
LM_FetchOk(t) ==
    /\ th[t].pc = "lm_fetch"
    /\ LET l == th[t]
           model_manager == [model |-> l.cur, inst |-> fetches[l.cur] + 1]
       IN  /\ fetches' = [fetches EXCEPT ![l.cur] = @ + 1]
           /\ model_manager_cache' =
                  StoreManager(model_manager_cache, l.cur, model_manager)
           /\ IF AfterLoad(l) = "return"
              THEN Finish(t, [status |-> "ok", op |-> l.op,
                                model |-> l.cur,
                              mm |-> model_manager, fetched |-> TRUE])
              ELSE th' = [th EXCEPT ![t].pc = AfterLoad(l),
                                    ![t].mm = model_manager]
    /\ UNCHANGED <<dbvars, calls, registered, committed, canon, appends>>

\* the cache after a load that raised: line 321 was not reached
CacheAfterFailure(cache, model_name) == cache

\* the failure undoes the registration of the call: the rows of the
\* call's query leave the tables query and user_query
LM_FetchFail_Unregister(t) ==
    /\ th[t].pc = "lm_fetch"
    /\ LET l == th[t]
           hs == {get_hash_with_model(l.query, m) : m \in l.model_ids}
       IN  /\ fetches' = [fetches EXCEPT ![l.cur] = @ + 1]
           /\ model_manager_cache' =
                  CacheAfterFailure(model_manager_cache, l.cur)
           /\ queries' = SelectSeq(queries, LAMBDA r : r.hash \notin hs)
           /\ user_queries' =
                  SelectSeq(user_queries, LAMBDA r : r.query_hash \notin hs)
           /\ Finish(t, [status |-> "LoadError", op |-> l.op,
                         model |-> l.cur])
    /\ UNCHANGED <<users, results, now, calls, registered, committed,
                   canon, appends>>

\* the failure is swallowed: an empty result is recorded for the model
\* and the call returns normally
LM_FetchFail_EmptyAnswer(t) ==
    /\ th[t].pc = "lm_fetch"
    /\ LET l == th[t]
       IN  /\ fetches' = [fetches EXCEPT ![l.cur] = @ + 1]
           /\ model_manager_cache' =
                  CacheAfterFailure(model_manager_cache, l.cur)
           /\ results' = put_results(results, l.cur,
                                     << <<l.query, "pysb", <<>> >> >>, now)
           /\ Finish(t, [status |-> "ok", op |-> l.op, model |-> l.cur])
    /\ UNCHANGED <<users, queries, user_queries, now, calls, registered,
                   committed, canon, appends>>

\* lines 318-320: get_object finds no artifact, or pickle.loads cannot
\* read it; the exception leaves the function and the caller
LM_FetchFail(t) ==
    /\ th[t].pc = "lm_fetch"
    /\ LET l == th[t]
       IN  /\ fetches' = [fetches EXCEPT ![l.cur] = @ + 1]
           /\ model_manager_cache' =
                  CacheAfterFailure(model_manager_cache, l.cur)
           /\ Finish(t, [status |-> "LoadError", op |-> l.op,
                         model |-> l.cur])
    /\ UNCHANGED <<dbvars, calls, registered, committed, canon, appends>>

\* a caller asks for a manager: load_model_manager_from_s3(model_name)
StartLoad(t, m) ==
    /\ CanStart(t)
    /\ Begin(t, [Idle EXCEPT !.pc = "lm_check",
                             !.op = "load_model_manager_from_s3",
                             !.cur = m])
    /\ UNCHANGED <<dbvars, cachevars, registered, committed, canon, appends>>

(***************************************************************************)
(* answer_immediate_query (answer_queries.py 31-62).                       *)
(***************************************************************************)
StartAnswerImmediate(t, c, q, ms, sub) ==
    /\ CanStart(t)
    /\ Begin(t, [Idle EXCEPT
                    !.pc = "pq_read", !.op = "answer_immediate_query",
                    !.user_email = EffectiveEmail(c.email, c.id),
                    !.user_id = c.id, !.query = q,
                    !.model_ids = ms, !.subscribe = sub])
    /\ UNCHANGED <<dbvars, cachevars, registered, committed, canon, appends>>

\* every requested model is answered anew
ModelsToAnswer_All(model_names, checked_models) == model_names

\* lines 49-50: the models for which no saved result was found
ModelsToAnswer(model_names, checked_models) == model_names \ checked_models

\* the first model of the loop of line 49 that is left to do
FirstModel(todo) == Head(SeqOfModels(todo))

\* the next model of the loop of lines 49-51, or its end
NextModel(l) ==
    IF l.todo = {} THEN [l EXCEPT !.pc = "aiq_return"]
    ELSE [l EXCEPT !.pc = "lm_check",
                   !.cur = FirstModel(l.todo),
                   !.todo = l.todo \ {FirstModel(l.todo)},
                   !.got = Append(l.got, FirstModel(l.todo))]

\* lines 39-48: the saved results and the models left to answer (none
\* left: the return of line 45, which is that of line 62 with no new
\* results)
AIQ_Resolve(t) ==
    /\ th[t].pc = "aiq_resolve"
    /\ LET l == th[t]
           saved_results ==
               get_results_from_query(queries, results, l.query,
                                      l.model_ids, 1).rows
           checked_models ==
               {saved_results[i].model_id : i \in 1..Len(saved_results)}
           l2 == [l EXCEPT !.saved = saved_results,
                           !.todo = ModelsToAnswer(l.model_ids,
                                                   checked_models),
                           !.new_date = now]
       IN  th' = [th EXCEPT ![t] = NextModel(l2)]
    /\ UNCHANGED <<dbvars, cachevars, calls, registered, committed, canon,
                   appends>>

\* (model_name, query, mc_type, response, new_date) of a response list
NewResults(model_name, query, response_list, new_date) ==
    [i \in 1..Len(response_list) |->
        [model_id |-> model_name, query |-> query,
         mc_type |-> response_list[i][1],
         result_json |-> response_list[i][2],
         date |-> new_date]]

\* the new results are put for every caller
PutsResults_Always(subscribe) == TRUE

\* line 57: the new results are put only with subscribe
PutsResults(subscribe) == subscribe

\* lines 52-60 for one model: the engine answers, the answers are kept
\* and, with subscribe, put
AIQ_Eval(t, Engine) ==
    /\ th[t].pc = "aiq_eval"
    /\ \E response_list \in Engine :
          LET l == th[t]
              l2 == [l EXCEPT
                        !.new_results =
                            @ \o NewResults(l.cur, l.query, response_list,
                                            l.new_date),
                        !.evals = Append(@, l.cur)]
          IN  /\ IF PutsResults(l.subscribe)
                 THEN /\ Len(results) + Len(response_list) <= MaxResults
                      /\ results' = put_results(results, l.cur,
                                        WithQuery(l.query, response_list),
                                        now)
                      /\ appends' = Handed(appends, l.cur,
                                        WithQuery(l.query, response_list))
                 ELSE UNCHANGED <<results, appends>>
              /\ th' = [th EXCEPT ![t] = NextModel(l2)]
    /\ UNCHANGED <<users, queries, user_queries, now, cachevars, calls,
                   registered, committed, canon>>

\* line 52: mm.answer_query(query) raises; nothing catches it and the
\* call ends with the error
AIQ_EvalFail(t) ==
    /\ th[t].pc = "aiq_eval"
    /\ LET l == th[t]
       IN  Finish(t, [status |-> "EvalError", op |-> l.op, model |-> l.cur,
                      query |-> l.query])
    /\ UNCHANGED <<dbvars, cachevars, calls, registered, committed, canon,
                   appends>>

\* lines 45 and 61-62: the saved and the new results, formatted
AIQ_Return(t) ==
    /\ th[t].pc = "aiq_return"
    /\ LET l == th[t]
           all_results == l.saved \o l.new_results
       IN  Finish(t, [status |-> format_results(all_results).status,
                      op |-> l.op,
                      results |-> format_results(all_results).results])
    /\ UNCHANGED <<dbvars, cachevars, calls, registered, committed, canon,
                   appends>>


(***************************************************************************)
(* answer_registered_queries (answer_queries.py 64-84).                    *)
(***************************************************************************)
StartAnswerRegistered(t, m, fd) ==
    /\ CanStart(t)
    /\ Begin(t, [Idle EXCEPT !.pc = "lm_check",
                             !.op = "answer_registered_queries",
                             !.cur = m, !.find_delta = fd, !.got = <<m>>])
    /\ UNCHANGED <<dbvars, cachevars, registered, committed, canon, appends>>

RECURSIVE AnswerQueries(_, _)
\* model_manager.answer_queries(queries): (query, mc_type, response) for
\* every query, each answered with the same response list
AnswerQueries(qs, response_list) ==
    IF qs = <<>> THEN <<>>
    ELSE WithQuery(Head(qs), response_list)
         \o AnswerQueries(Tail(qs), response_list)

\* line 75: (model_name, query, mc_type, response, '')
BatchRows(model_name, answered) ==
    [i \in 1..Len(answered) |->
        [model_id |-> model_name, query |-> answered[i][1],
         mc_type |-> answered[i][2], result_json |-> answered[i][3],
         date |-> 0]]

\* lines 71-83: the registered queries are answered and, with find_delta,
\* the reports on the batch are logged
ARQ_Answer(t, Engine) ==
    /\ th[t].pc = "arq_answer"
    /\ LET l == th[t]
           qs == get_queries(queries, l.cur)
       IN  IF qs = <<>>
           THEN Finish(t, [status |-> "ok", op |-> l.op])
           ELSE \E response_list \in Engine :
                   LET answered == AnswerQueries(qs, response_list)
                       new_results == BatchRows(l.cur, answered)
                   IN  th' = [th EXCEPT
                           ![t].pc = "arq_put",
                           ![t].new_results = new_results,
                           ![t].evals = [i \in 1..Len(qs) |-> l.cur],
                           ![t].reports =
                               IF l.find_delta
                               THEN make_reports_from_results(
                                        queries, results, new_results, FALSE)
                               ELSE <<>>]
    /\ UNCHANGED <<dbvars, cachevars, calls, registered, committed, canon,
                   appends>>

\* line 74: model_manager.answer_queries(queries) raises on one of the
\* queries; nothing catches it (lines 70-84 have no try) and the call
\* ends with the error, before line 84
ARQ_EvalFail(t) ==
    /\ th[t].pc = "arq_answer"
    /\ LET l == th[t]
           qs == get_queries(queries, l.cur)
       IN  \E i \in 1..Len(qs) :
              Finish(t, [status |-> "EvalError", op |-> l.op,
                         model |-> l.cur, query |-> qs[i]])
    /\ UNCHANGED <<dbvars, cachevars, calls, registered, committed, canon,
                   appends>>

\* (query, mc_type, response) of the rows of a batch
AsQueryResults(rows) ==
    [i \in 1..Len(rows) |->
        <<rows[i].query, rows[i].mc_type, rows[i].result_json>>]

\* line 84: the results of the batch are put
ARQ_Put(t) ==
    /\ th[t].pc = "arq_put"
    /\ LET l == th[t]
       IN  /\ Len(results) + Len(l.new_results) <= MaxResults
           /\ results' = put_results(results, l.cur,
                                     AsQueryResults(l.new_results), now)
           /\ appends' = Handed(appends, l.cur,
                                AsQueryResults(l.new_results))
           /\ Finish(t, [status |-> "ok", op |-> l.op])
    /\ UNCHANGED <<users, queries, user_queries, now, cachevars, calls,
                   registered, committed, canon>>

(***************************************************************************)
(* The read-only calls.                                                    *)
(***************************************************************************)
\* db.get_results_from_query(query, model_ids, latest_order): the
\* resolver, with what it was asked
GetResultsFromQuery(t, q, ms, latest_order) ==
    /\ CanStart(t)
    /\ LET r == get_results_from_query(queries, results, q, ms, latest_order)
       IN  Finish(t, [status |-> IF r.err = "none" THEN "ok" ELSE r.err,
                      op |-> "get_results_from_query",
                      query |-> q, model_ids |-> ms,
                      order |-> latest_order, rows |-> r.rows])
    /\ UNCHANGED <<dbvars, cachevars, calls, registered, committed, canon,
                   appends>>

\* get_report_per_query (answer_queries.py 168-175)
get_report_per_query(qtbl, rtbl, model_name, query) ==
    LET new_results == get_results_from_query(qtbl, rtbl, query,
                                              {model_name}, 1)
    IN  IF new_results.err = "IndexError"
        THEN [none |-> TRUE, reports |-> <<>>]
        ELSE [none |-> FALSE,
              reports |-> make_reports_from_results(qtbl, rtbl,
                              new_results.rows, TRUE)]

GetReportPerQuery(t, q, m) ==
    /\ CanStart(t)
    /\ LET r == get_report_per_query(queries, results, m, q)
       IN  Finish(t, [status |-> "ok", op |-> "get_report_per_query",
                      query |-> q, model |-> m,
                      none |-> r.none, reports |-> r.reports])
    /\ UNCHANGED <<dbvars, cachevars, calls, registered, committed, canon,
                   appends>>

\* get_registered_queries (answer_queries.py 86-89): the results the
\* user has registered for, and their formatted form
GetRegisteredQueries(t, user_email) ==
    /\ CanStart(t)
    /\ LET r == get_results(users, queries, user_queries, results,
                            user_email, 1)
       IN  Finish(t, [status |-> format_results(r.rows).status,
                      op |-> "get_registered_queries",
                      user_email |-> user_email,
                      rows |-> r.rows,
                      results |-> format_results(r.rows).results])
    /\ UNCHANGED <<dbvars, cachevars, calls, registered, committed, canon,
                   appends>>

(***************************************************************************)
(* The system: the threads of the service, the sweep and the clock.       *)
(***************************************************************************)
\* the steps inside a call; Engine is what the evaluation may answer
Inner(t, Engine) ==
    \/ PQ_Read(t)
    \/ PQ_AddUser(t)
    \/ PQ_Commit(t)
    \/ LM_Check(t)
    \/ LM_FetchOk(t)
    \/ LM_FetchFail(t)
    \/ AIQ_Resolve(t)
    \/ AIQ_Eval(t, Engine)
    \/ AIQ_EvalFail(t)
    \/ AIQ_Return(t)
    \/ ARQ_Answer(t, Engine)
    \/ ARQ_EvalFail(t)
    \/ ARQ_Put(t)

\* the answers of the engine in the runs of the whole system
SomeResponses ==
    { << <<"pysb", <<>> >> >>,
      << <<"pysb", [h1 |-> "e1"]>> >>,
      << <<"pysb", [h1 |-> "e1"]>>, <<"pybel", [h1 |-> "e1"]>> >> }

Next ==
    \/ Tick
    \/ \E t \in Threads :
          \/ Inner(t, SomeResponses)
          \/ /\ calls < MaxCalls
             /\ \/ \E c \in Callers, ms \in {{"m1"}, Models},
                      sub \in BOOLEAN :
                      StartAnswerImmediate(t, c, "q1", ms, sub)
                \/ \E m \in Models, fd \in BOOLEAN :
                      StartAnswerRegistered(t, m, fd)

Spec == Init /\ [][Next]_vars


(***************************************************************************)
(* The registry alone: one caller after the other registers queries.       *)
(***************************************************************************)
RegNext ==
    \/ PQ_Read("t1")
    \/ PQ_AddUser("t1")
    \/ PQ_Commit("t1")
    \/ /\ calls < MaxRegCalls
       /\ \E c \in Callers, q \in Queries, sub \in BOOLEAN :
             \/ \E ms \in SUBSET Models :
                   StartPutQueries("t1", c, q, ms, sub)
             \/ PutQueriesNotCollection("t1", c, q, sub)

RegSpec == Init /\ [][RegNext]_vars

(***************************************************************************)
(* The registry under concurrency: the threads of the service register     *)
(* the same query at the same time.                                        *)
(***************************************************************************)
ConcRegNext ==
    \E t \in Threads :
        \/ PQ_Read(t)
        \/ PQ_AddUser(t)
        \/ PQ_Commit(t)
        \/ /\ calls < MaxRegCalls
           /\ \E c \in Callers, ms \in {{"m1"}, Models}, sub \in BOOLEAN :
                 StartPutQueries(t, c, "q1", ms, sub)

ConcRegSpec == Init /\ [][ConcRegNext]_vars

(***************************************************************************)
(* The users: two identified users and the anonymous caller register a    *)
(* query from the threads of the service at the same time.                *)
(***************************************************************************)
ConcUserNext ==
    \E t \in Threads :
        \/ PQ_Read(t)
        \/ PQ_AddUser(t)
        \/ PQ_Commit(t)
        \/ /\ calls < MaxRegCalls
           /\ \E c \in Subscribers, sub \in BOOLEAN :
                 StartPutQueries(t, c, "q1", {"m1"}, sub)

ConcUserSpec == Init /\ [][ConcUserNext]_vars

(***************************************************************************)
(* The registry with two queries whose hashes meet: q3 on m2 hashes to    *)
(* what q1 on m1 hashes to.  One caller after the other registers.        *)
(***************************************************************************)
CollisionNext ==
    \/ PQ_Read("t1")
    \/ PQ_AddUser("t1")
    \/ PQ_Commit("t1")
    \/ /\ calls < MaxRegCalls
       /\ \E c \in Callers, q \in {"q1", "q3"}, ms \in SUBSET Models,
             sub \in BOOLEAN :
             StartPutQueries("t1", c, q, ms, sub)

CollisionSpec == Init /\ [][CollisionNext]_vars

(***************************************************************************)
(* The hash alone: a caller holds two serializations, may write the       *)
(* second in another order, and asks for the hash of both on a model.     *)
(***************************************************************************)
\* the items with those at i and i + 1 exchanged
SwapAt(items, i) ==
    [k \in 1..Len(items) |->
        IF k = i THEN items[i + 1]
        ELSE IF k = i + 1 THEN items[i]
        ELSE items[k]]

RECURSIVE Reorderings(_)
\* the serializations that differ from json_thing by one exchange of
\* two neighbours, list elements or dict entries, at any depth
Reorderings(json_thing) ==
    IF json_thing.t = "list" THEN
        {List(SwapAt(json_thing.items, i)) :
            i \in 1..(Len(json_thing.items) - 1)}
        \cup UNION {{List([json_thing.items EXCEPT ![i] = r]) :
                       r \in Reorderings(json_thing.items[i])} :
                    i \in 1..Len(json_thing.items)}
    ELSE IF json_thing.t = "dict" THEN
        {Dict(SwapAt(json_thing.items, i)) :
            i \in 1..(Len(json_thing.items) - 1)}
        \cup UNION {{Dict([json_thing.items EXCEPT
                             ![i] = <<json_thing.items[i][1], r>>]) :
                       r \in Reorderings(json_thing.items[i][2])} :
                    i \in 1..Len(json_thing.items)}
    ELSE {}

\* the caller writes the second serialization in another order
Reorder ==
    /\ ~canon.done
    /\ \E r \in Reorderings(canon.b) : canon' = [canon EXCEPT !.b = r]
    /\ UNCHANGED <<dbvars, cachevars, th, calls, registered, committed,
                   appends>>

\* sorted_json_string and hash_query (manager.py 364-383) of both
\* serializations with model id m
HashBoth(m) ==
    /\ ~canon.done
    /\ canon' = [canon EXCEPT
                    !.done = TRUE, !.m = m,
                    !.sa = sorted_json_string(canon.a),
                    !.sb = sorted_json_string(canon.b),
                    !.ha = hash_query(canon.a, ModelBytes(m)),
                    !.hb = hash_query(canon.b, ModelBytes(m))]
    /\ UNCHANGED <<dbvars, cachevars, th, calls, registered, committed,
                   appends>>

JsonInit ==
    /\ InitProgram
    /\ \E a, b \in JsonInputs : canon = Unhashed(a, b)

JsonNext ==
    \/ Reorder
    \/ \E m \in Models : HashBoth(m)

JsonSpec == JsonInit /\ [][JsonNext]_vars

(***************************************************************************)
(* The sweep: queries are registered on a model one after the other and   *)
(* answer_registered_queries answers them in one batch.                    *)
(***************************************************************************)
SweepNext ==
    \/ Tick
    \/ PQ_Read("t1")
    \/ PQ_Commit("t1")
    \/ LM_Check("t1")
    \/ LM_FetchOk("t1")
    \/ LM_FetchFail("t1")
    \/ ARQ_Answer("t1", SomeResponses)
    \/ ARQ_EvalFail("t1")
    \/ ARQ_Put("t1")
    \/ /\ calls < MaxSweepCalls
       /\ \/ \E q \in Queries :
                StartPutQueries("t1", [email |-> "", id |-> NoneId], q,
                                {"m1"}, FALSE)
          \/ \E fd \in BOOLEAN : StartAnswerRegistered("t1", "m1", fd)

SweepSpec == Init /\ [][SweepNext]_vars

(***************************************************************************)
(* Answering with two queries whose hashes meet: one caller after the     *)
(* other asks q1 or q3 on the models.                                      *)
(***************************************************************************)
CollisionAnswerNext ==
    \/ Tick
    \/ Inner("t1", SomeResponses)
    \/ /\ calls < MaxCalls
       /\ \/ \E c \in Callers, q \in {"q1", "q3"},
                ms \in {{"m1"}, {"m2"}}, sub \in BOOLEAN :
                StartAnswerImmediate("t1", c, q, ms, sub)
          \/ \E m \in Models : StartAnswerRegistered("t1", m, FALSE)

CollisionAnswerSpec == Init /\ [][CollisionAnswerNext]_vars

(***************************************************************************)
(* The subscribers: users and the anonymous caller ask a query, with and  *)
(* without subscribe, the sweep answers the registered queries, and the   *)
(* users read the results they have registered for.                       *)
(***************************************************************************)
SubscriberNext ==
    \/ Tick
    \/ Inner("t1", SomeResponses)
    \/ /\ calls < MaxSubscriberCalls
       /\ \/ \E c \in Subscribers, sub \in BOOLEAN :
                StartAnswerImmediate("t1", c, "q1", {"m1"}, sub)
          \/ StartAnswerRegistered("t1", "m1", FALSE)
    \/ \E e \in Emails : GetRegisteredQueries("t1", e)

SubscriberSpec == Init /\ [][SubscriberNext]_vars

(***************************************************************************)
(* The ledger and its readers: a query is registered, results are put,    *)
(* the resolver and the report builder read.                               *)
(***************************************************************************)
LedgerNext ==
    \/ Tick
    \/ PQ_Read("t1")
    \/ PQ_Commit("t1")
    \/ /\ calls < 1
       /\ \E ms \in {{"m1"}, Models} :
             StartPutQueries("t1", [email |-> "", id |-> NoneId], "q1", ms,
                             FALSE)
    \/ \E m \in Models, rl \in ResponseLists : PutResults("t1", m, "q1", rl)
    \/ \E ms \in SUBSET Models, latest_order \in 1..MaxOrder :
          GetResultsFromQuery("t1", "q1", ms, latest_order)
    \/ \E m \in Models : GetReportPerQuery("t1", "q1", m)

LedgerSpec == Init /\ [][LedgerNext]_vars

(***************************************************************************)
(* The cache alone: the threads of the service ask for managers.           *)
(***************************************************************************)
CacheNext ==
    \E t \in Threads :
        \/ LM_Check(t)
        \/ LM_FetchOk(t)
        \/ LM_FetchFail(t)
        \/ calls < MaxLoads /\ \E m \in Models : StartLoad(t, m)

CacheSpec == Init /\ [][CacheNext]_vars


(***************************************************************************)
(* Properties.                                                             *)
(***************************************************************************)
\* the rows of table query for (model_id, hash)
QueryRowsOf(m, h) ==
    {i \in 1..Len(queries) : queries[i].model_id = m /\ queries[i].hash = h}

\* the rows of table user_query for (user_id, query_hash)
UserQueryRowsOf(uid, h) ==
    {i \in 1..Len(user_queries) :
        user_queries[i].user_id = uid /\ user_queries[i].query_hash = h}

\* the rows of table result for (query_hash, mc_type)
ResultRowsOf(h, mc) ==
    {i \in 1..Len(results) :
        results[i].query_hash = h /\ results[i].mc_type = mc}

\* C1: after k >= 1 put_queries calls of one caller after the other for
\* (user, query, model), with any subscribe values, table query holds
\* exactly one row for (model, hash), table user_query exactly one row for
\* (user, hash), and the count of that row is k.
C1_RegisterCounts ==
    \A c \in Callers, q \in Queries, m \in Models :
        LET h == get_hash_with_model(q, m)
            k == registered[<<c.id, h>>]
        IN  k >= 1 =>
              /\ Cardinality(QueryRowsOf(m, h)) = 1
              /\ \A i \in QueryRowsOf(m, h) : queries[i].json = q
              /\ Cardinality(UserQueryRowsOf(c.id, h)) = 1
              /\ \A i \in UserQueryRowsOf(c.id, h) : user_queries[i].count = k

\* a caller has registered the same query on the same model twice, and
\* the second call has returned
C1_Witness ==
    /\ th["t1"].pc = "idle"
    /\ \E k \in DOMAIN registered :
          /\ registered[k] = 2
          /\ \E i \in UserQueryRowsOf(k[1], k[2]) : user_queries[i].count = 2

\* the latest date among the rows of a group
MaxDate(rows) == CHOOSE d \in {results[i].date : i \in rows} :
                    \A i \in rows : results[i].date <= d

\* C2: after N results were handed to put_results for the same (hash,
\* mc_type), by any threads in any order, table result holds exactly N
\* rows for it, and the resolver with latest_order = 1 returns for it one
\* row of the table whose date is the latest of them.
C2_AppendOnlyLatest ==
    \A q \in Queries, m \in Models, mc \in McTypes :
        LET h == get_hash_with_model(q, m)
            rows == ResultRowsOf(h, mc)
            r == get_results_from_query(queries, results, q, {m}, 1)
            mine == {j \in 1..Len(r.rows) : r.rows[j].mc_type = mc}
        IN  /\ Cardinality(rows) = appends[<<h, mc>>]
            /\ appends[<<h, mc>>] >= 1 =>
                  /\ r.err = "none"
                  /\ Cardinality(mine) = 1
                  /\ \A j \in mine :
                        /\ r.rows[j].date = MaxDate(rows)
                        /\ r.rows[j].model_id = m
                        /\ r.rows[j].query = q
                        /\ \E i \in rows :
                              /\ results[i].date = r.rows[j].date
                              /\ results[i].result_json = r.rows[j].result_json

\* two results were put for one (hash, mc_type) at different times
C2_Witness ==
    \E k \in DOMAIN appends :
        /\ appends[k] >= 2
        /\ \E i, j \in ResultRowsOf(k[1], k[2]) :
              results[i].date < results[j].date


\* the rows of table result of one (hash, mc_type), ascending by date
GroupAscending(h, mc) ==
    SortByDate(SelectSeq(results,
                         LAMBDA r : r.query_hash = h /\ r.mc_type = mc))

\* the entries the resolver returned for (model, mc_type)
EntriesOf(rows, m, mc) ==
    {j \in 1..Len(rows) : rows[j].model_id = m /\ rows[j].mc_type = mc}

\* C3: for every set of models (hashes) and every order, each (hash,
\* mc_type) group with n >= order rows gets exactly one entry from the
\* resolver, the row at position n - order of the group in ascending date
\* order, and a hash without rows gets no entry.
C3_ResolvePosition ==
    \A q \in Queries, ms \in SUBSET Models, order \in 1..MaxOrder :
        LET r == get_results_from_query(queries, results, q, ms, order)
        IN  \A m \in ms, mc \in McTypes :
              LET g == GroupAscending(get_hash_with_model(q, m), mc)
                  n == Len(g)
                  mine == EntriesOf(r.rows, m, mc)
              IN  /\ n >= order =>
                        /\ Cardinality(mine) = 1
                        /\ \A j \in mine :
                              /\ r.rows[j].date = g[n - order + 1].date
                              /\ r.rows[j].result_json
                                    = g[n - order + 1].result_json
                  /\ n = 0 => mine = {}

\* C4: a (hash, mc_type) group with fewer rows than the order asked for
\* gives no entry and the resolver raises no error, and the groups of the
\* same call that have enough rows still give theirs.
C4_ShortGroupSkipped ==
    \A q \in Queries, ms \in SUBSET Models, order \in 1..MaxOrder :
        LET r == get_results_from_query(queries, results, q, ms, order)
        IN  /\ r.err = "none"
            /\ \A m \in ms, mc \in McTypes :
                  LET n == Len(GroupAscending(get_hash_with_model(q, m), mc))
                  IN  IF n < order
                      THEN EntriesOf(r.rows, m, mc) = {}
                      ELSE EntriesOf(r.rows, m, mc) # {}

\* C5: a report says "first" exactly when there was no previous result;
\* with a previous result, the empty mapping included, it says "changed"
\* when the key sets of the new and the previous result differ and
\* "unchanged" when they are equal, whatever is stored under the keys.
C5_DeltaClassification ==
    \A t \in Threads :
        (th[t].ret.status = "ok" /\ th[t].ret.op = "get_report_per_query") =>
            \A i \in 1..Len(th[t].ret.reports) :
                LET rep == th[t].ret.reports[i]
                    old == rep.old_result_json
                IN  /\ rep.kind = "first" <=> ~old.some
                    /\ old.some =>
                          rep.kind = IF DOMAIN rep.new_result_json
                                          # DOMAIN old.v
                                     THEN "changed" ELSE "unchanged"


\* the threads that are fetching the manager of model m from the store
Fetching(m) == {t \in Threads : th[t].pc = "lm_fetch" /\ th[t].cur = m}

\* C6: when several threads ask for the manager of one model before the
\* first fetch has completed, only one of them fetches it: at no time are
\* two loads of the same model in flight.
C6_SingleFlight ==
    \A m \in Models : Cardinality(Fetching(m)) <= 1

\* C7: once the manager of a model is in the cache, every later call for
\* it returns that manager without a fetch, and no call, for this or for
\* another model, replaces or removes the entry.
C7_ReadyIsStable ==
    [][\A m \in Models :
          Truthy(model_manager_cache[m]) =>
              /\ model_manager_cache'[m] = model_manager_cache[m]
              /\ \A t \in Threads :
                    (th[t].pc = "lm_check" /\ th[t].cur = m
                        /\ th'[t].pc = "idle") =>
                        /\ th'[t].ret.status = "ok"
                        /\ th'[t].ret.mm = model_manager_cache[m]
                        /\ fetches' = fetches]_vars

\* the step in which the load of thread t fails
LoadFails(t) ==
    /\ th[t].pc = "lm_fetch"
    /\ th'[t].pc = "idle"
    /\ th'[t].ret.status = "LoadError"

\* C8: when the fetch or the deserialization fails, the caller gets the
\* failure, nothing is stored for the model, the entries of the other
\* models are unchanged, and the model is absent from the cache again, so
\* that the next call for it fetches anew.
C8_FailureLeavesAbsent ==
    [][\A t \in Threads :
          LoadFails(t) =>
              /\ th'[t].ret.model = th[t].cur
              /\ model_manager_cache' = model_manager_cache
              /\ ~Truthy(model_manager_cache'[th[t].cur])]_vars


\* the elements of a sequence
Range(s) == {s[i] : i \in 1..Len(s)}

\* thread t is in answer_immediate_query, past the read of saved results
PastResolve(t) ==
    /\ th[t].op = "answer_immediate_query"
    /\ th[t].pc \in {"lm_check", "lm_fetch", "aiq_eval", "aiq_return"}

\* no manager is asked for and no evaluation is made for a model whose
\* saved result the call has read
NoHandleNoEval ==
    \A t \in Threads :
        PastResolve(t) =>
            \A i \in 1..Len(th[t].saved) :
                /\ th[t].saved[i].model_id \notin th[t].todo
                /\ th[t].saved[i].model_id \notin Range(th[t].got)
                /\ th[t].saved[i].model_id \notin Range(th[t].evals)

\* the formatted result of a row
Formatted(row) ==
    [model |-> row.model_id, query |-> row.query, mc_type |-> row.mc_type,
     response |-> _process_result_to_html(row.result_json).html,
     date |-> row.date]

EvalReturns(t) ==
    /\ th[t].pc = "aiq_eval"
    /\ th'[t].pc \in {"lm_check", "aiq_return"}

\* the rows of table result that put_results makes of returned pairs
AppendedRows(model_id, query, pairs) ==
    [i \in 1..Len(pairs) |->
        [query_hash |-> get_hash_with_model(query, model_id),
         mc_type |-> pairs[i].mc_type,
         result_json |-> pairs[i].result_json]]

\* a sequence of rows without their dates
Undated(rows) ==
    [i \in 1..Len(rows) |->
        [query_hash |-> rows[i].query_hash, mc_type |-> rows[i].mc_type,
         result_json |-> rows[i].result_json]]

\* C10: in answer_immediate_query with subscribe, every requested model
\* without a saved result is evaluated exactly once in the call (a call
\* that gets to its return has evaluated each of them), and the pairs an
\* evaluation returns are appended to table result once each, none lost
\* and none twice.
C10_EvaluatedOnceAppendedOnce ==
    [][\A t \in Threads :
          /\ (EvalReturns(t) /\ th[t].subscribe) =>
                LET old == th[t].new_results
                    new == th'[t].new_results
                    pairs == SubSeq(new, Len(old) + 1, Len(new))
                IN  /\ th'[t].evals = Append(th[t].evals, th[t].cur)
                    /\ SubSeq(results', 1, Len(results)) = results
                    /\ Undated(SubSeq(results', Len(results) + 1,
                                      Len(results')))
                          = AppendedRows(th[t].cur, th[t].query, pairs)
          /\ (th[t].pc = "aiq_return" /\ th[t].subscribe) =>
                \A m \in th[t].model_ids :
                    Cardinality({i \in 1..Len(th[t].evals) :
                                    th[t].evals[i] = m})
                      = IF \E i \in 1..Len(th[t].saved) :
                               th[t].saved[i].model_id = m
                        THEN 0 ELSE 1
      ]_vars

\* a call with subscribe has evaluated one model, got one pair and put
\* one row
C10_Witness ==
    \E t \in Threads :
        /\ th[t].op = "answer_immediate_query"
        /\ th[t].pc = "aiq_return"
        /\ th[t].subscribe
        /\ th[t].saved = <<>>
        /\ Len(th[t].new_results) = 1
        /\ Len(results) = 1


C12_LedgerImmutable ==
    [][/\ Len(results') >= Len(results)
       /\ SubSeq(results', 1, Len(results)) = results]_vars

\* two calls have put results one after the other and have returned
C12_Witness ==
    /\ \A t \in Threads : th[t].pc = "idle"
    /\ calls = MaxCalls
    /\ Len(results) >= 2
    /\ results[1].date < results[Len(results)].date


\* C13: once the subscription of a user_query row is true, no put_queries
\* call, with subscribe true or false, makes it false; and after a call
\* with subscribe true the rows of the caller for the hashes of the call
\* have it true.
C13_OptInMonotonic ==
    [][/\ \A i \in 1..Len(user_queries) :
             user_queries[i].subscription =>
                 /\ i <= Len(user_queries')
                 /\ user_queries'[i].user_id = user_queries[i].user_id
                 /\ user_queries'[i].query_hash = user_queries[i].query_hash
                 /\ user_queries'[i].subscription
       /\ \A t \in Threads :
             (th[t].pc = "pq_commit" /\ th[t].subscribe
                 /\ th'[t].pc = "idle" /\ th'[t].ret.status = "ok") =>
                 \A m \in th[t].model_ids :
                     \A i \in 1..Len(user_queries') :
                         (user_queries'[i].user_id = th[t].user_id
                             /\ user_queries'[i].query_hash =
                                   get_hash_with_model(th[t].query, m))
                         => user_queries'[i].subscription
      ]_vars

\* a caller who had opted in has registered the same query again with
\* subscribe false, and the subscription is still true
C13_Witness ==
    /\ th["t1"].pc = "idle"
    /\ th["t1"].ret.op = "put_queries"
    /\ th["t1"].ret.status = "ok"
    /\ ~th["t1"].ret.subscribe
    /\ calls = 2
    /\ \E k \in DOMAIN registered :
          /\ registered[k] = 2
          /\ \E i \in UserQueryRowsOf(k[1], k[2]) :
                user_queries[i].subscription /\ user_queries[i].count = 2


\* C14: under every interleaving of put_queries calls table query never
\* holds two rows with the same (model_id, hash), table user_query never
\* two rows with the same (user_id, query_hash), and the count of a
\* user_query row is the number of committed calls for its (user, hash).
C14_ConcurrentRegister ==
    /\ \A i, j \in 1..Len(queries) :
          (queries[i].model_id = queries[j].model_id
              /\ queries[i].hash = queries[j].hash) => i = j
    /\ \A i, j \in 1..Len(user_queries) :
          (user_queries[i].user_id = user_queries[j].user_id
              /\ user_queries[i].query_hash = user_queries[j].query_hash)
          => i = j
    /\ \A i \in 1..Len(user_queries) :
          user_queries[i].count
              = registered[<<user_queries[i].user_id,
                             user_queries[i].query_hash>>]

\* thread t ends its put_queries in this step
PutQueriesEnds(t) == th[t].pc = "pq_commit" /\ th'[t].pc # "pq_commit"

\* C15: a put_queries call is one unit of work: the tables query and
\* user_query change only in the step in which a call commits, and then
\* every model of the call has its query row and the caller's user_query
\* row; a call that fails leaves both tables exactly as they were.
C15_RegisterAtomic ==
    [][/\ (queries' # queries \/ user_queries' # user_queries) =>
             \E t \in Threads :
                 /\ PutQueriesEnds(t)
                 /\ th'[t].pc = "idle" => th'[t].ret.status = "ok"
                 /\ \A m \in th[t].model_ids :
                       LET h == get_hash_with_model(th[t].query, m)
                       IN  /\ \E i \in 1..Len(queries') :
                                 queries'[i].hash = h
                           /\ \E i \in 1..Len(user_queries') :
                                 /\ user_queries'[i].user_id = th[t].user_id
                                 /\ user_queries'[i].query_hash = h
                                 /\ user_queries'[i].count =
                                      IF h \in DOMAIN th[t].existing_uq
                                      THEN th[t].existing_uq[h].count + 1
                                      ELSE 1
       /\ \A t \in Threads :
             (PutQueriesEnds(t) /\ th'[t].pc = "idle"
                 /\ th'[t].ret.status # "ok") =>
                 /\ queries' = queries
                 /\ user_queries' = user_queries
      ]_vars

\* a call for two models has failed on the row of one of them, and the
\* row of the other is not in the table
C15_Witness ==
    \E t \in Threads :
        /\ th[t].pc = "idle"
        /\ th[t].ret.status = "IntegrityError"
        /\ th[t].ret.model_ids = Models
        /\ \A i \in 1..Len(queries) : queries[i].model_id = "m1"
        /\ Len(queries) = 1


\* C16: put_queries fails with an error when model_ids is empty or is
\* not a list or set, and then writes nothing: no row of user, query or
\* user_query is added and no count is changed.
C16_InvalidModelSet ==
    [][/\ \A t \in Threads :
             (th[t].op = "put_queries" /\ th[t].model_ids = {}) =>
                 /\ users' = users
                 /\ queries' = queries
                 /\ user_queries' = user_queries
                 /\ th'[t].pc = "idle" => th'[t].ret.status = "TypeError"
       /\ (calls' # calls /\ \A t \in Threads : th'[t].pc = "idle") =>
             /\ \E t \in Threads : th'[t].ret.status = "TypeError"
             /\ users' = users
             /\ queries' = queries
             /\ user_queries' = user_queries
      ]_vars


\* C17: after a put_queries call that returned, every model of the call
\* has a row in table query with its model id and the hash of the query
\* on it, also when a row with the same hash was there for another model
\* or query.
C17_QueryRowPerModel ==
    [][\A t \in Threads :
          (PutQueriesEnds(t) /\ th'[t].pc = "idle"
              /\ th'[t].ret.status = "ok") =>
              \A m \in th[t].model_ids :
                  \E i \in 1..Len(queries') :
                      /\ queries'[i].model_id = m
                      /\ queries'[i].hash
                            = get_hash_with_model(th[t].query, m)
      ]_vars

\* C18: get_queries(m) returns, as a set, the queries that some committed
\* put_queries call registered on model m, and no other query.
C18_GetQueriesExact ==
    \A m \in Models :
        Range(get_queries(queries, m))
            = {q \in AllQueries : <<q, m>> \in committed}

\* the (model, query, checker type) triple of a batch row or of a report
TripleOfRow(row) == <<row.model_id, row.query, row.mc_type>>
TripleOfReport(rep) == <<rep.model_name, rep.query, rep.mc_type>>

\* the first row of the batch with the triple
FirstOccurrence(new_results, triple) ==
    new_results[CHOOSE i \in 1..Len(new_results) :
                   /\ TripleOfRow(new_results[i]) = triple
                   /\ \A j \in 1..(i - 1) :
                         TripleOfRow(new_results[j]) # triple]

\* one report for every distinct triple of the batch, with the payload of
\* the first occurrence, and a FIRST report when table result has no row
\* of the triple's hash and checker type
OneReportPerTriple(new_results, reports, rtbl) ==
    \A triple \in {TripleOfRow(new_results[i]) : i \in 1..Len(new_results)} :
        LET of == {i \in 1..Len(reports) :
                      TripleOfReport(reports[i]) = triple}
            h == get_hash_with_model(triple[2], triple[1])
        IN  /\ Cardinality(of) = 1
            /\ \A i \in of :
                  /\ reports[i].new_result_json
                        = FirstOccurrence(new_results, triple).result_json
                  /\ (\A k \in 1..Len(rtbl) :
                         ~(rtbl[k].query_hash = h
                             /\ rtbl[k].mc_type = triple[3]))
                     => reports[i].kind = "first"

\* C19: make_reports_from_results gives exactly one report for every
\* distinct (model, query, checker type) triple of the batch, with the
\* payload of the first occurrence; no triple is left without a report,
\* and a triple without a previous result of its own checker type gets a
\* FIRST report.  Stated on the reports answer_registered_queries makes
\* of the batch it has just evaluated.
C19_OneReportPerTriple ==
    [][\A t \in Threads :
          (th[t].pc = "arq_answer" /\ th'[t].pc = "arq_put"
              /\ th[t].find_delta) =>
              OneReportPerTriple(th'[t].new_results, th'[t].reports, results)
      ]_vars

\* the most recent row of a group other than its latest one, the new
\* result's own record when the new result is stored
PreviousStored(h, mc) ==
    LET g == GroupAscending(h, mc)
    IN  IF Len(g) >= 2 THEN Some(g[Len(g) - 1].result_json) ELSE None

\* C20: the previous payload a report of stored results is made with is
\* the most recent row of table result of the same (hash, checker type)
\* other than the new result's own row (order 2: the new result is the
\* latest row), and there is none only when the group has no other row.
\* Stated on the reports get_report_per_query returned.
C20_PreviousIsSecondLatest ==
    \A t \in Threads :
        (th[t].ret.status = "ok" /\ th[t].ret.op = "get_report_per_query"
            /\ ~th[t].ret.none) =>
            \A i \in 1..Len(th[t].ret.reports) :
                LET rep == th[t].ret.reports[i]
                    h == get_hash_with_model(rep.query, rep.model_name)
                IN  rep.old_result_json = PreviousStored(h, rep.mc_type)

\* the latest row of a group, the previous result of one not yet stored
PreviousUnstored(h, mc) ==
    LET g == GroupAscending(h, mc)
    IN  IF Len(g) >= 1 THEN Some(g[Len(g)].result_json) ELSE None

\* the step of answer_registered_queries that evaluates the batch and,
\* with find_delta, makes the reports
MakesReports(t) ==
    /\ th[t].pc = "arq_answer"
    /\ th'[t].pc = "arq_put"

\* the step of answer_registered_queries that puts the batch
PutsBatch(t) ==
    /\ th[t].pc = "arq_put"
    /\ th'[t].pc = "idle"

\* C21 as claimed: answer_registered_queries appends the batch and then
\* runs the delta engine over it, so no call holds the reports of its
\* batch while the append of the batch is still ahead of it.
C21_AppendThenDelta ==
    \A t \in Threads : th[t].pc = "arq_put" => th[t].reports = <<>>

\* C21 amended: with find_delta the delta engine runs over the batch
\* before the batch is appended, with order 1: table result is not
\* changed by that step and every report is made with the latest row of
\* its (hash, checker type) as the previous result (none when there is no
\* row); without find_delta no report is made; the step after it appends
\* every result of the batch, in batch order, with the reports or without.
C21_DeltaThenAppend ==
    [][\A t \in Threads :
          /\ MakesReports(t) =>
                /\ results' = results
                /\ ~th[t].find_delta => th'[t].reports = <<>>
                /\ \A i \in 1..Len(th'[t].reports) :
                      LET rep == th'[t].reports[i]
                          h == get_hash_with_model(rep.query, rep.model_name)
                      IN  rep.old_result_json
                              = PreviousUnstored(h, rep.mc_type)
          /\ PutsBatch(t) =>
                LET batch == th[t].new_results
                    n == Len(results)
                IN  /\ Len(results') = n + Len(batch)
                    /\ SubSeq(results', 1, n) = results
                    /\ \A i \in 1..Len(batch) :
                          /\ results'[n + i].query_hash
                                = get_hash_with_model(batch[i].query,
                                                      batch[i].model_id)
                          /\ results'[n + i].mc_type = batch[i].mc_type
                          /\ results'[n + i].result_json
                                = batch[i].result_json
      ]_vars

\* a call has made a report against a previous result and has its batch
\* still to put
C21_Witness ==
    \E t \in Threads :
        /\ th[t].pc = "arq_put"
        /\ \E i \in 1..Len(th[t].reports) :
              th[t].reports[i].old_result_json.some

\* the calls that answer queries
Answering == {"answer_immediate_query", "answer_registered_queries"}

\* the load of the manager of the current model of thread t fails in
\* this step
LoadFailsIn(t) ==
    /\ th[t].pc = "lm_fetch"
    /\ th[t].op \in Answering
    /\ th'[t].pc # "lm_fetch"
    /\ model_manager_cache' = model_manager_cache
    /\ fetches'[th[t].cur] = fetches[th[t].cur] + 1

\* C22: when the load of the manager of model m fails in
\* answer_immediate_query or answer_registered_queries, the call ends
\* there with the load error for m, not with an answer; the step appends
\* nothing to table result and the call has not evaluated or appended
\* any result for m.
C22_LoadFailureNoResult ==
    [][\A t \in Threads :
          LoadFailsIn(t) =>
              /\ th'[t].pc = "idle"
              /\ th'[t].ret.status = "LoadError"
              /\ th'[t].ret.op = th[t].op
              /\ th'[t].ret.model = th[t].cur
              /\ results' = results
              /\ appends' = appends
              /\ \A i \in 1..Len(th[t].new_results) :
                    th[t].new_results[i].model_id # th[t].cur
      ]_vars

\* answer_immediate_query ended with a load error for its second model
\* after it had appended the results of its first
C22_Witness ==
    \E t \in Threads :
        /\ th[t].ret.status = "LoadError"
        /\ th[t].ret.op = "answer_immediate_query"
        /\ th[t].ret.model = "m2"
        /\ results # <<>>

\* the evaluation of one query of the batch of thread t raises in this
\* step
EvalFailsIn(t) ==
    /\ th[t].pc = "arq_answer"
    /\ th'[t].pc = "idle"
    /\ th'[t].ret.status = "EvalError"

\* C23: when the evaluation of one registered query fails in
\* answer_registered_queries(model), the batch is not given up: every
\* other registered query of the model gets its result appended to table
\* result by the call.
C23_PartialFailureKeepsBatch ==
    [][\A t \in Threads :
          EvalFailsIn(t) =>
              \A q \in Range(get_queries(queries, th[t].cur))
                          \ {th'[t].ret.query} :
                  \E i \in 1..Len(results') :
                      /\ i > Len(results)
                      /\ results'[i].query_hash
                            = get_hash_with_model(q, th[t].cur)
      ]_vars

\* table result holds a result of the query on the model that is older
\* than the latest of its checker type
HasPrior(q, m) ==
    \E mc \in McTypes : Len(GroupAscending(get_hash_with_model(q, m), mc)) >= 2

\* C24: get_report_per_query(model, query) returns None exactly when no
\* prior result exists for the query on the model, be it that table
\* result has no row for the hash or only the latest one; it returns
\* reports only when a prior result exists.
C24_NoneWithoutPrior ==
    \A t \in Threads :
        (th[t].ret.status = "ok" /\ th[t].ret.op = "get_report_per_query") =>
            (th[t].ret.none <=> ~HasPrior(th[t].ret.query, th[t].ret.model))

RECURSIVE SameContent(_, _)
\* two serializations that differ at most in the order of list elements
\* and dict entries, at any depth
SameContent(a, b) ==
    IF a.t # b.t THEN FALSE
    ELSE IF a.t = "list" THEN
        /\ Len(a.items) = Len(b.items)
        /\ \E p \in [1..Len(a.items) -> 1..Len(a.items)] :
              /\ \A i, j \in 1..Len(a.items) : p[i] = p[j] => i = j
              /\ \A i \in 1..Len(a.items) :
                    SameContent(a.items[i], b.items[p[i]])
    ELSE IF a.t = "dict" THEN
        /\ Len(a.items) = Len(b.items)
        /\ \E p \in [1..Len(a.items) -> 1..Len(a.items)] :
              /\ \A i, j \in 1..Len(a.items) : p[i] = p[j] => i = j
              /\ \A i \in 1..Len(a.items) :
                    /\ a.items[i][1] = b.items[p[i]][1]
                    /\ SameContent(a.items[i][2], b.items[p[i]][2])
    ELSE a = b

RECURSIVE HasUnsupported(_)
\* some value in the serialization, at any depth, is not a dict, a list,
\* a string or a float
HasUnsupported(json_thing) ==
    IF json_thing.t = "list" THEN
        \E i \in 1..Len(json_thing.items) :
            HasUnsupported(json_thing.items[i])
    ELSE IF json_thing.t = "dict" THEN
        \E i \in 1..Len(json_thing.items) :
            HasUnsupported(json_thing.items[i][2])
    ELSE json_thing.t \notin {"str", "float"}

\* C25: two serializations that differ only in the order of dict keys
\* and list elements, at any depth, have the same sorted_json_string
\* and, on every model, the same hash (or both are refused).
C25_OrderInsensitive ==
    (canon.done /\ SameContent(canon.a, canon.b)) =>
        /\ canon.sa = canon.sb
        /\ canon.ha = canon.hb

\* both were hashed, the second written in another order than the first
C25_Witness ==
    /\ canon.done
    /\ canon.a # canon.b
    /\ SameContent(canon.a, canon.b)
    /\ canon.a.t = "dict"
    /\ ~canon.ha.err

\* C26: a serialization holding, at any depth, a value that is not a
\* dict, a list, a string or a float is refused with the type error: no
\* canonical string and no hash come out of it; every other one is
\* hashed.
C26_UnsupportedRefused ==
    canon.done =>
        /\ canon.sa.err <=> HasUnsupported(canon.a)
        /\ canon.ha.err <=> HasUnsupported(canon.a)
        /\ canon.sb.err <=> HasUnsupported(canon.b)
        /\ canon.hb.err <=> HasUnsupported(canon.b)

\* a serialization with None inside a list inside a dict was refused
C26_Witness ==
    /\ canon.done
    /\ canon.a.t = "dict"
    /\ \E i \in 1..Len(canon.a.items) :
          /\ canon.a.items[i][2].t = "list"
          /\ HasUnsupported(canon.a.items[i][2])
    /\ canon.ha.err

\* C29: two serializations over dicts, lists, strings and floats that
\* differ in content, not merely in order, have different
\* sorted_json_strings.
C29_CanonicalInjective ==
    (/\ canon.done
     /\ ~HasUnsupported(canon.a)
     /\ ~HasUnsupported(canon.b)
     /\ ~SameContent(canon.a, canon.b)) =>
        canon.sa # canon.sb

\* the rows of table result of one checker type
OfCheckerType(rtbl, mc) == SelectSeq(rtbl, LAMBDA r : r.mc_type = mc)

\* C27: results of different checker types are kept apart.  The resolver
\* returns at most one entry per (hash, checker type), and a report on a
\* result of checker type c is the report made when table result holds
\* the rows of checker type c only: the rows of the other checker types
\* of the same hash do not change its classification.
C27_CheckerTypesApart ==
    \A t \in Threads :
        /\ (th[t].ret.status = "ok"
               /\ th[t].ret.op = "get_results_from_query") =>
              \A m \in th[t].ret.model_ids, mc \in McTypes :
                  Cardinality(EntriesOf(th[t].ret.rows, m, mc)) <= 1
        /\ (th[t].ret.status = "ok"
               /\ th[t].ret.op = "get_report_per_query"
               /\ ~th[t].ret.none) =>
              \A i \in 1..Len(th[t].ret.reports) :
                  LET rep == th[t].ret.reports[i]
                      alone == get_report_per_query(
                                   queries,
                                   OfCheckerType(results, rep.mc_type),
                                   th[t].ret.model, th[t].ret.query)
                  IN  \E j \in 1..Len(alone.reports) :
                          /\ alone.reports[j].mc_type = rep.mc_type
                          /\ alone.reports[j].kind = rep.kind

\* C28: put_queries without identity creates no row in table user, and
\* all anonymous calls for one (query, model) share one user_query row
\* with user id None, whose count is the number of those calls.
C28_AnonymousShared ==
    /\ \A k \in 1..Len(users) :
          /\ users[k].id # NoneId
          /\ users[k].email # EffectiveEmail("", NoneId)
    /\ \A h \in Hashes :
          registered[<<NoneId, h>>] >= 1 =>
              /\ Cardinality(UserQueryRowsOf(NoneId, h)) = 1
              /\ \A i \in UserQueryRowsOf(NoneId, h) :
                    user_queries[i].count = registered[<<NoneId, h>>]

\* the steps of answer_immediate_query that come after its put_queries
AfterRegistration == {"aiq_resolve", "lm_check", "lm_fetch", "aiq_eval",
                      "aiq_return"}

\* the rows put_queries writes for the call of thread t are in the tables
RegistrationStored(l) ==
    \A m \in l.model_ids :
        LET h == get_hash_with_model(l.query, m)
        IN  /\ \E i \in 1..Len(queries) : queries[i].hash = h
            /\ \E i \in UserQueryRowsOf(l.user_id, h) :
                  user_queries[i].count >= 1

\* thread t's answer_immediate_query ends in this step with a failure of
\* the load of a manager or of the evaluation
FailsAfterRegistration(t) ==
    /\ th[t].op = "answer_immediate_query"
    /\ th[t].pc \in AfterRegistration
    /\ th'[t].pc = "idle"
    /\ th'[t].ret.status \in {"LoadError", "EvalError"}

\* C30: in answer_immediate_query the registration has committed before
\* the resolver, the cache or the engine is used, and when the load of a
\* manager or the evaluation then fails, the step leaves the tables
\* query and user_query as they are: the rows and the count the
\* registration wrote stay.
C30_RegistrationFirst ==
    [][\A t \in Threads :
          /\ (th[t].op = "answer_immediate_query"
                 /\ th[t].pc \in AfterRegistration) =>
                RegistrationStored(th[t])
          /\ FailsAfterRegistration(t) =>
                /\ queries' = queries
                /\ user_queries' = user_queries
                /\ \A m \in th[t].model_ids :
                      LET h == get_hash_with_model(th[t].query, m)
                      IN  /\ \E i \in 1..Len(queries') : queries'[i].hash = h
                          /\ \E i \in 1..Len(user_queries') :
                                /\ user_queries'[i].user_id = th[t].user_id
                                /\ user_queries'[i].query_hash = h
                                /\ user_queries'[i].count >= 1
      ]_vars

\* an answer_immediate_query ended with a failed evaluation and its
\* registration is in the tables
C30_Witness ==
    \E t \in Threads :
        /\ th[t].ret.status = "EvalError"
        /\ th[t].ret.op = "answer_immediate_query"
        /\ \E i \in 1..Len(queries) :
              queries[i].hash
                  = get_hash_with_model(th[t].ret.query, th[t].ret.model)
        /\ \E i \in 1..Len(user_queries) : user_queries[i].count >= 1


\* C31: get_results(user_email) returns a result for a (query, model)
\* only if the user with that email has, at the time of the call, a
\* user_query row for its hash whose subscription is true: nothing is
\* returned for a hash the user has only asked without subscribe, or that
\* only other users or the anonymous caller have asked; and for each
\* (hash, mc_type) returned there is one entry, the latest row of table
\* result for it.
C31_SubscribedOnly ==
    \A t \in Threads :
        th[t].ret.op = "get_registered_queries" =>
            LET ret == th[t].ret
            IN  \A j \in 1..Len(ret.rows) :
                  LET row == ret.rows[j]
                      h == get_hash_with_model(row.query, row.model_id)
                      rows == ResultRowsOf(h, row.mc_type)
                  IN  /\ \E c \in Subscribers :
                            /\ c.email = ret.user_email
                            /\ c.id # NoneId
                            /\ \E i \in UserQueryRowsOf(c.id, h) :
                                  user_queries[i].subscription
                      /\ rows # {}
                      /\ row.date = MaxDate(rows)
                      /\ \E i \in rows :
                            /\ results[i].date = row.date
                            /\ results[i].result_json = row.result_json
                      /\ \A k \in 1..Len(ret.rows) :
                            GroupKey(ret.rows[k]) = GroupKey(row) => k = j

\* a user who has subscribed reads the later of two results, while
\* another user has asked the same query without subscribe
C31_Witness ==
    /\ th["t1"].ret.op = "get_registered_queries"
    /\ th["t1"].ret.user_email = "a@x"
    /\ Len(th["t1"].ret.rows) >= 1
    /\ \E i, j \in 1..Len(results) :
          /\ results[i].query_hash = results[j].query_hash
          /\ results[i].mc_type = results[j].mc_type
          /\ results[i].date < results[j].date
          /\ th["t1"].ret.rows[1].date = results[j].date
    /\ \E i \in 1..Len(user_queries) :
          user_queries[i].user_id = 2 /\ ~user_queries[i].subscription


\* the requested models that thread t, having read the saved results,
\* goes on to answer
LeftToAnswer(l) == l.todo \cup Range(l.got)

\* the entries of new_results for the pairs of a response list
ReportedPairs(l, response_list) ==
    [i \in 1..Len(response_list) |->
        [model_id |-> l.cur, query |-> l.query,
         mc_type |-> response_list[i][1],
         result_json |-> response_list[i][2],
         date |-> l.new_date]]

\* C32: answer_immediate_query takes a requested model as answered
\* exactly when table result holds, when the call reads the saved
\* results, a row for hash(query, model) of some mc_type.  Such a model
\* is not evaluated in the call, for no mc_type; a model without any row
\* is evaluated, and every (mc_type, response) the evaluation returns is
\* in the new results and in the answer the call returns.
C32_AnsweredByHash ==
    [][\A t \in Threads :
          /\ (th[t].pc = "aiq_resolve" /\ th'[t] # th[t]) =>
                \A m \in th[t].model_ids :
                    (m \notin LeftToAnswer(th'[t]))
                    <=> \E mc \in McTypes :
                           ResultRowsOf(
                               get_hash_with_model(th[t].query, m), mc) # {}
          /\ (PastResolve(t) /\ PastResolve(t)') =>
                /\ LeftToAnswer(th'[t]) = LeftToAnswer(th[t])
                /\ Range(th'[t].evals) \subseteq LeftToAnswer(th[t])
          /\ EvalReturns(t) =>
                \E response_list \in SomeResponses :
                    /\ th'[t].new_results
                          = th[t].new_results
                            \o ReportedPairs(th[t], response_list)
                    /\ th[t].subscribe =>
                          Undated(SubSeq(results', Len(results) + 1,
                                         Len(results')))
                            = AppendedRows(th[t].cur, th[t].query,
                                  ReportedPairs(th[t], response_list))
          /\ (th[t].pc = "aiq_return" /\ th'[t].pc = "idle"
                 /\ th'[t].ret.status = "ok") =>
                /\ Range(th[t].evals) = LeftToAnswer(th[t])
                /\ th'[t].ret.results =
                       [i \in 1..(Len(th[t].saved) + Len(th[t].new_results))
                           |-> Formatted((th[t].saved
                                          \o th[t].new_results)[i])]
      ]_vars


\* the rows the read-time join of the resolver makes of result row i
JoinedTo(i) ==
    {j \in 1..Len(queries) : queries[j].hash = results[i].query_hash}

\* C33: in every state that answer_immediate_query and
\* answer_registered_queries reach, the query_hash of every row of table
\* result is the hash of a row of table query, and the join of the
\* resolver on that hash yields the row's mc_type, result_json and date.
C33_ResultsReferToQueries ==
    \A i \in 1..Len(results) :
        /\ JoinedTo(i) # {}
        /\ LET joined == JoinRows(queries, results,
                                  {results[i].query_hash}, 1)
           IN  \E k \in 1..Len(joined) :
                  /\ joined[k].mc_type = results[i].mc_type
                  /\ joined[k].result_json = results[i].result_json
                  /\ joined[k].date = results[i].date
                  /\ \E j \in JoinedTo(i) :
                        /\ joined[k].model_id = queries[j].model_id
                        /\ joined[k].json = queries[j].json

\* an answer_immediate_query with subscribe and a sweep have both put
\* their results and returned
C33_Witness ==
    \E t, u \in Threads :
        /\ th[t].pc = "idle" /\ th[u].pc = "idle"
        /\ th[t].ret.op = "answer_immediate_query"
        /\ th[t].ret.status = "ok"
        /\ th[u].ret.op = "answer_registered_queries"
        /\ th[u].ret.status = "ok"
        /\ Len(results) >= 2
        /\ \A i \in 1..Len(results) : JoinedTo(i) # {}


\* the rows of table user with the given id
UserRowsOf(uid) == {k \in 1..Len(users) : users[k].id = uid}

=============================================================================
